---- MODULE Spec2Model ----
(***************************************************************************)
(* Risk Fusion & Escalation Engine of the loneliness-detection backend.    *)
(*                                                                         *)
(* RiskCalculator (backend/models/risk_assessment.py) fuses listening and  *)
(* calendar metrics into a 0..100 score, a level and an explanation;       *)
(* run_intervention (backend/agents/intervention_agent.py) maps an         *)
(* assessment to a message, action items and activity recommendations.     *)
(* run_detection (backend/agents/detection_agent.py) fetches the metrics of *)
(* the two sources, falling back to neutral defaults, and calls the        *)
(* calculator.  connect_calendar and google_calendar_callback              *)
(* (backend/api/routes.py) keep the calendar columns of the user's         *)
(* permissions row; they are checked on their own under PermSpec.          *)
(*                                                                         *)
(* Numbers: Python floats are modelled as exact rationals <<n, d>> with    *)
(* d > 0 in lowest terms, so every comparison of the code is decided       *)
(* exactly.  A metric dictionary is a record over its six keys whose       *)
(* absent keys hold Missing, read through Get as dict.get(key, default).   *)
(***************************************************************************)
EXTENDS Integers, Sequences, FiniteSets, TLC

VARIABLES
    pc,               \* "start" | "assessed" | "handed" | "intervened" | "classified"
    spotify_metrics,  \* the caller's listening dict, as calculate_risk leaves it
    calendar_metrics, \* the caller's calendar dict, as calculate_risk leaves it
    baseline_data,    \* the caller's baseline, as calculate_risk leaves it
    passed,           \* the three arguments as they were passed to the call
    risk_result,      \* what calculate_risk returned (or that it raised)
    previous,         \* an earlier calculate_risk call: its inputs and result
    detection,        \* arguments, analyzer outcomes and fetches of run_detection
    risk_assessment,  \* the assessment handed to run_intervention
    from_calculator,  \* TRUE when risk_assessment came out of calculate_risk
    user_id,          \* run_intervention argument
    db_session,       \* run_intervention argument: TRUE when a session is given
    user_interests,   \* run_intervention argument
    user_location,    \* run_intervention argument
    env,              \* outcome of the external collaborators in this call
    recommender_calls,\* calls made to EventMatchingTool.recommend_events
    store_calls,      \* calls made to store_intervention
    prompt,           \* the prompt context built for the message generator
    intervention,     \* what run_intervention returned
    earlier,          \* the run_intervention call before this one: level, items
    classified,       \* argument and result of a direct get_risk_level call
    permission,       \* the user's row of the permissions table, as stored
    response          \* the last permission request, the row before it, its answer

vars == <<pc, spotify_metrics, calendar_metrics, baseline_data, passed, risk_result,
          previous, detection, risk_assessment, from_calculator, user_id,
          db_session,
          user_interests, user_location, env, recommender_calls, store_calls,
          prompt, intervention, earlier, classified, permission, response>>

----------------------------------------------------------------------------
(* Exact rational arithmetic standing for Python's float arithmetic.        *)

Abs(x) == IF x < 0 THEN -x ELSE x

RECURSIVE GCD(_, _)
GCD(a, b) == IF b = 0 THEN a ELSE GCD(b, a % b)

Rat(n, d) ==
    LET s == IF d < 0 THEN -1 ELSE 1
        g == GCD(Abs(n), Abs(d))
    IN  <<(s * n) \div g, (s * d) \div g>>

Num(n) == <<n, 1>>
Dec(h) == Rat(h, 100)              \* the decimal literal h/100, e.g. 0.25 = Dec(25)

RAdd(a, b) == Rat(a[1] * b[2] + b[1] * a[2], a[2] * b[2])
RSub(a, b) == Rat(a[1] * b[2] - b[1] * a[2], a[2] * b[2])
RMul(a, b) == Rat(a[1] * b[1], a[2] * b[2])
RDiv(a, b) == Rat(a[1] * b[2], a[2] * b[1])      \* caller guarantees b # 0
RLt(a, b)  == a[1] * b[2] < b[1] * a[2]
RLe(a, b)  == a[1] * b[2] <= b[1] * a[2]
RGt(a, b)  == RLt(b, a)
RGe(a, b)  == RLe(b, a)
RMin(a, b) == IF RLt(b, a) THEN b ELSE a         \* Python min(a, b)
RMax(a, b) == IF RGt(b, a) THEN b ELSE a         \* Python max(a, b)
IsZero(a)  == a[1] = 0

Floor(q) == q[1] \div q[2]

\* Mutant of RoundHalfEven: int(x) without round, the fraction is dropped.
RoundHalfEven_Truncate(q) == Floor(q)

\* Python round(x): to the nearest integer, ties to the even one.
RoundHalfEven(q) ==
    LET f  == Floor(q)
        r2 == 2 * (q[1] - f * q[2])
    IN  IF r2 < q[2] THEN f
        ELSE IF r2 > q[2] THEN f + 1
        ELSE IF f % 2 = 0 THEN f ELSE f + 1

\* Python round(x, 2).
Round2(q) == Rat(RoundHalfEven(RMul(q, Num(100))), 100)

----------------------------------------------------------------------------
(* Dictionaries.                                                            *)

Missing == <<0, 0>>                 \* the key is absent from the dict

Get(m, k, default) == IF m[k] = Missing THEN default ELSE m[k]

SpotifyKeys == {"baseline_listening_hours", "current_listening_hours",
                "late_night_percentage", "baseline_valence",
                "current_valence", "repeat_listening_percentage"}

CalendarKeys == {"baseline_social_events", "current_social_events",
                 "declined_invitation_rate", "declined_invitations_count",
                 "baseline_unique_contacts", "current_unique_contacts"}

EmptySpotify  == [k \in SpotifyKeys |-> Missing]      \* the dict {}
EmptyCalendar == [k \in CalendarKeys |-> Missing]     \* the dict {}

----------------------------------------------------------------------------
(* RiskCalculator.                                                          *)

\* Mutant of SPOTIFY_WEIGHT: listening counts for 0.2 of the composite.
SPOTIFY_WEIGHT_Half == Dec(20)

SPOTIFY_WEIGHT  == Dec(40)
CALENDAR_WEIGHT == Dec(50)
BASELINE_WEIGHT == Dec(10)

\* Mutant of RISK_CATEGORIES: every range ends one point early.
RISK_CATEGORIES_EndEarly ==
    << [level |-> "low",      min |-> Num(0),  max |-> Num(24)],
       [level |-> "mild",     min |-> Num(25), max |-> Num(49)],
       [level |-> "moderate", min |-> Num(50), max |-> Num(74)],
       [level |-> "high",     min |-> Num(75), max |-> Num(100)] >>

\* In the dict's iteration order.
RISK_CATEGORIES ==
    << [level |-> "low",      min |-> Num(0),  max |-> Num(25)],
       [level |-> "mild",     min |-> Num(26), max |-> Num(50)],
       [level |-> "moderate", min |-> Num(51), max |-> Num(75)],
       [level |-> "high",     min |-> Num(76), max |-> Num(100)] >>

SpikeFactor(sm) ==
    LET baseline_hours == Get(sm, "baseline_listening_hours", Num(15))
        current_hours  == Get(sm, "current_listening_hours", Num(15))
    IN  IF RGt(baseline_hours, Num(0))
        THEN LET listening_spike_ratio == RDiv(current_hours, baseline_hours)
             IN  IF RGt(listening_spike_ratio, Num(2)) THEN Dec(3750)
                 ELSE IF RGt(listening_spike_ratio, Num(1))
                      THEN RMul(RSub(listening_spike_ratio, Num(1)), Dec(3750))
                      ELSE Num(0)
        ELSE Num(0)

LateNightFactor(sm) ==
    LET late_night_pct == Get(sm, "late_night_percentage", Num(0))
    IN  RMin(Num(25), RMul(RDiv(late_night_pct, Num(50)), Num(25)))

ValenceFactor(sm) ==
    LET baseline_valence == Get(sm, "baseline_valence", Dec(50))
        current_valence  == Get(sm, "current_valence", Dec(50))
        valence_decline  == RSub(baseline_valence, current_valence)
    IN  IF RGt(valence_decline, Num(0))
        THEN RMin(Num(25), RMul(RDiv(valence_decline, Dec(30)), Num(25)))
        ELSE Num(0)

RepeatFactor(sm) ==
    LET repeat_percentage == Get(sm, "repeat_listening_percentage", Num(0))
    IN  RMin(Dec(1250), RMul(RDiv(repeat_percentage, Num(40)), Dec(1250)))

calculate_spotify_score(sm) ==
    RMin(Num(100),
         RAdd(RAdd(RAdd(SpikeFactor(sm), LateNightFactor(sm)),
                   ValenceFactor(sm)),
              RepeatFactor(sm)))

EventDeclineFactor(cm) ==
    LET baseline_events == Get(cm, "baseline_social_events", Num(8))
        current_events  == Get(cm, "current_social_events", Num(8))
    IN  IF RGt(baseline_events, Num(0))
        THEN LET decline_ratio ==
                     RDiv(RSub(baseline_events, current_events), baseline_events)
             IN  RMin(Num(50), RMul(decline_ratio, Dec(6667)))
        ELSE Num(0)

DeclinedRateFactor(cm) ==
    LET declined_rate == Get(cm, "declined_invitation_rate", Num(0))
    IN  RMin(Num(30), RMul(RDiv(declined_rate, Num(50)), Num(30)))

ContactDeclineFactor(cm) ==
    LET baseline_unique_contacts == Get(cm, "baseline_unique_contacts", Num(5))
        current_unique_contacts  == Get(cm, "current_unique_contacts", Num(5))
    IN  IF RGt(baseline_unique_contacts, Num(0))
        THEN LET contact_decline_ratio ==
                     RDiv(RSub(baseline_unique_contacts, current_unique_contacts),
                          baseline_unique_contacts)
             IN  RMin(Num(20), RMul(RDiv(contact_decline_ratio, Dec(50)), Num(20)))
        ELSE Num(0)

calculate_calendar_score(cm) ==
    RMin(Num(100),
         RAdd(RAdd(EventDeclineFactor(cm), DeclinedRateFactor(cm)),
              ContactDeclineFactor(cm)))

\* baseline_data: [is_none, other_keys, historical_risk]; `not baseline_data`
\* holds for None and for the empty dict.
BaselineFalsy(bd) ==
    bd.is_none \/ (~bd.other_keys /\ bd.historical_risk = Missing)

\* Mutant of calculate_baseline_risk: without a baseline, the score of the
\* last call is kept and used as the prior.
calculate_baseline_risk_Learned(bd) ==
    IF BaselineFalsy(bd)
    THEN IF previous.valid /\ ~previous.risk_result.raised
         THEN Num(previous.risk_result.score) ELSE Num(10)
    ELSE LET historical_risk == Get(bd, "historical_risk", Num(10))
         IN  RMin(Num(100), RMax(Num(0), historical_risk))

\* Mutant of calculate_baseline_risk: no prior when there is no baseline.
calculate_baseline_risk_NoPrior(bd) ==
    IF BaselineFalsy(bd) THEN Num(0)
    ELSE LET historical_risk == Get(bd, "historical_risk", Num(10))
         IN  RMin(Num(100), RMax(Num(0), historical_risk))

\* Mutant of calculate_baseline_risk: historical_risk is returned as it is.
calculate_baseline_risk_Unclamped(bd) ==
    IF BaselineFalsy(bd) THEN Num(10)
    ELSE Get(bd, "historical_risk", Num(10))

calculate_baseline_risk(bd) ==
    IF BaselineFalsy(bd) THEN Num(10)
    ELSE LET historical_risk == Get(bd, "historical_risk", Num(10))
         IN  RMin(Num(100), RMax(Num(0), historical_risk))

RECURSIVE ScanCategories(_, _)
ScanCategories(score, i) ==
    IF i > Len(RISK_CATEGORIES) THEN "unknown"
    ELSE IF RLe(RISK_CATEGORIES[i].min, score) /\ RLe(score, RISK_CATEGORIES[i].max)
         THEN RISK_CATEGORIES[i].level
         ELSE ScanCategories(score, i + 1)

get_risk_level(score) == ScanCategories(score, 1)

\* A get_risk_level call as its caller sees it: the loop and the final
\* `return "unknown"` always return a level, no statement of it raises.
GetRiskLevelCall(score) == [raised |-> FALSE, level |-> get_risk_level(score)]

\* Mutant of generate_risk_explanation: without the closing neutral statement.
generate_risk_explanation_NoNeutral(sm, cm) ==
    LET baseline_hours    == Get(sm, "baseline_listening_hours", Num(15))
        current_hours     == Get(sm, "current_listening_hours", Num(15))
        late_night_pct    == Get(sm, "late_night_percentage", Num(0))
        baseline_valence  == Get(sm, "baseline_valence", Dec(50))
        current_valence   == Get(sm, "current_valence", Dec(50))
        valence_decline   == RSub(baseline_valence, current_valence)
        repeat_pct        == Get(sm, "repeat_listening_percentage", Num(0))
        baseline_events   == Get(cm, "baseline_social_events", Num(8))
        current_events    == Get(cm, "current_social_events", Num(8))
        declined_invitations == Get(cm, "declined_invitations_count", Num(0))
        baseline_contacts == Get(cm, "baseline_unique_contacts", Num(5))
        current_contacts  == Get(cm, "current_unique_contacts", Num(5))
        If(c, s) == IF c THEN <<s>> ELSE <<>>
        explanations ==
            If(RGt(current_hours, RMul(baseline_hours, Dec(150))), "listening_spike")
            \o If(RGt(late_night_pct, Num(40)), "late_night")
            \o If(RGt(valence_decline, Dec(20)), "mood_shift")
            \o If(RGt(repeat_pct, Num(30)), "repeat_listening")
            \o If(RLt(current_events, baseline_events), "social_decline")
            \o If(RGt(declined_invitations, Num(0)), "declined_invitations")
            \o If(RLt(current_contacts, RMul(baseline_contacts, Dec(70))),
                  "contact_reduction")
    IN  IF RLt(current_events, baseline_events) /\ IsZero(baseline_events)
        THEN [raised |-> TRUE, value |-> <<>>]          \* ZeroDivisionError
        ELSE [raised |-> FALSE,
              value  |-> explanations]

\* Mutant of generate_risk_explanation: the calendar statements come first.
generate_risk_explanation_CalendarFirst(sm, cm) ==
    LET baseline_hours    == Get(sm, "baseline_listening_hours", Num(15))
        current_hours     == Get(sm, "current_listening_hours", Num(15))
        late_night_pct    == Get(sm, "late_night_percentage", Num(0))
        baseline_valence  == Get(sm, "baseline_valence", Dec(50))
        current_valence   == Get(sm, "current_valence", Dec(50))
        valence_decline   == RSub(baseline_valence, current_valence)
        repeat_pct        == Get(sm, "repeat_listening_percentage", Num(0))
        baseline_events   == Get(cm, "baseline_social_events", Num(8))
        current_events    == Get(cm, "current_social_events", Num(8))
        declined_invitations == Get(cm, "declined_invitations_count", Num(0))
        baseline_contacts == Get(cm, "baseline_unique_contacts", Num(5))
        current_contacts  == Get(cm, "current_unique_contacts", Num(5))
        If(c, s) == IF c THEN <<s>> ELSE <<>>
        explanations ==
            If(RLt(current_events, baseline_events), "social_decline")
            \o If(RGt(declined_invitations, Num(0)), "declined_invitations")
            \o If(RLt(current_contacts, RMul(baseline_contacts, Dec(70))),
                  "contact_reduction")
            \o If(RGt(current_hours, RMul(baseline_hours, Dec(150))), "listening_spike")
            \o If(RGt(late_night_pct, Num(40)), "late_night")
            \o If(RGt(valence_decline, Dec(20)), "mood_shift")
            \o If(RGt(repeat_pct, Num(30)), "repeat_listening")
    IN  IF RLt(current_events, baseline_events) /\ IsZero(baseline_events)
        THEN [raised |-> TRUE, value |-> <<>>]          \* ZeroDivisionError
        ELSE [raised |-> FALSE,
              value  |-> IF explanations = <<>> THEN <<"neutral">>
                         ELSE explanations]

\* The statements are modelled by their kind; the formatted numbers are not.
\* Computing the social-decline percentage divides by baseline_events.
generate_risk_explanation(sm, cm) ==
    LET baseline_hours    == Get(sm, "baseline_listening_hours", Num(15))
        current_hours     == Get(sm, "current_listening_hours", Num(15))
        late_night_pct    == Get(sm, "late_night_percentage", Num(0))
        baseline_valence  == Get(sm, "baseline_valence", Dec(50))
        current_valence   == Get(sm, "current_valence", Dec(50))
        valence_decline   == RSub(baseline_valence, current_valence)
        repeat_pct        == Get(sm, "repeat_listening_percentage", Num(0))
        baseline_events   == Get(cm, "baseline_social_events", Num(8))
        current_events    == Get(cm, "current_social_events", Num(8))
        declined_invitations == Get(cm, "declined_invitations_count", Num(0))
        baseline_contacts == Get(cm, "baseline_unique_contacts", Num(5))
        current_contacts  == Get(cm, "current_unique_contacts", Num(5))
        If(c, s) == IF c THEN <<s>> ELSE <<>>
        explanations ==
            If(RGt(current_hours, RMul(baseline_hours, Dec(150))), "listening_spike")
            \o If(RGt(late_night_pct, Num(40)), "late_night")
            \o If(RGt(valence_decline, Dec(20)), "mood_shift")
            \o If(RGt(repeat_pct, Num(30)), "repeat_listening")
            \o If(RLt(current_events, baseline_events), "social_decline")
            \o If(RGt(declined_invitations, Num(0)), "declined_invitations")
            \o If(RLt(current_contacts, RMul(baseline_contacts, Dec(70))),
                  "contact_reduction")
    IN  IF RLt(current_events, baseline_events) /\ IsZero(baseline_events)
        THEN [raised |-> TRUE, value |-> <<>>]          \* ZeroDivisionError
        ELSE [raised |-> FALSE,
              value  |-> IF explanations = <<>> THEN <<"neutral">>
                         ELSE explanations]

NoFactors == [spotify_score |-> Missing, calendar_score |-> Missing,
              baseline_score |-> Missing, total_score |-> Missing]

\* What a call that raised leaves behind: no result.
Raised == [raised |-> TRUE, score |-> -1, level |-> "", factors |-> NoFactors,
           explanation |-> <<>>]

\* Lines 232-236: the weighted sum of the three subscores.
WeightedSum(spotify_score, calendar_score, baseline_score) ==
    RAdd(RAdd(RMul(spotify_score, SPOTIFY_WEIGHT),
              RMul(calendar_score, CALENDAR_WEIGHT)),
         RMul(baseline_score, BASELINE_WEIGHT))

\* Mutant of ClampTotal: capped at 100 only, as the subscores are.
ClampTotal_UpperOnly(total_score) == RMin(Num(100), total_score)

\* Line 239: min(100, max(0, total_score)).
ClampTotal(total_score) == RMin(Num(100), RMax(Num(0), total_score))

\* The three arguments after a calculate_risk call: the score functions and
\* generate_risk_explanation only read them with .get, nothing is assigned.
ArgumentsAfter(sm, cm, bd) ==
    [spotify_metrics |-> sm, calendar_metrics |-> cm, baseline_data |-> bd]

calculate_risk(sm, cm, bd) ==
    LET spotify_score  == calculate_spotify_score(sm)
        calendar_score == calculate_calendar_score(cm)
        baseline_score == calculate_baseline_risk(bd)
        total_score    == ClampTotal(WeightedSum(spotify_score, calendar_score,
                                                 baseline_score))
        risk_level     == get_risk_level(total_score)
        factors        == [spotify_score  |-> Round2(spotify_score),
                           calendar_score |-> Round2(calendar_score),
                           baseline_score |-> Round2(baseline_score),
                           total_score    |-> Round2(total_score)]
        explanation    == generate_risk_explanation(sm, cm)
    IN  IF explanation.raised THEN Raised
        ELSE [raised      |-> FALSE,
              score       |-> RoundHalfEven(total_score),
              level       |-> risk_level,
              factors     |-> factors,
              explanation |-> explanation.value]

----------------------------------------------------------------------------
(* Intervention agent.                                                      *)

CrisisResources == {"988", "741741", "(979) 845-4427"}

\* The crisis resources each template of `messages` contains.
TemplateResources(key) == IF key = "critical" THEN CrisisResources ELSE {}

TemplateKeys == {"low", "moderate", "elevated", "high", "critical"}

\* messages.get(risk_level, messages["moderate"]).strip()
generate_empathetic_message(risk_level) ==
    LET key == IF risk_level \in TemplateKeys THEN risk_level ELSE "moderate"
    IN  [source |-> "template", template |-> key,
         resources |-> TemplateResources(key), empty |-> FALSE]

\* anxiety_mapping.get(risk_level, "medium")
AnxietyLevel(risk_level) ==
    CASE risk_level \in {"low", "moderate"}   -> "low"
      [] risk_level = "elevated"              -> "medium"
      [] risk_level \in {"high", "critical"}  -> "high"
      [] OTHER                                -> "medium"

\* Python truth value of Optional[List[str]] and Optional[str].
InterestsTruthy(i) == ~i.is_none /\ Len(i.items) > 0
LocationTruthy(l)  == ~l.is_none /\ l.text # ""

\* Mutant of recommend_activities: a missing location falls back to the
\* search's default city and missing interests to a stock list.
recommend_activities_Defaults(risk_level, interests, location, outcome, events) ==
    [calls |-> << [location      |-> IF LocationTruthy(location) THEN location.text
                                     ELSE "College Station, TX",
                   anxiety_level |-> AnxietyLevel(risk_level),
                   interests     |-> IF InterestsTruthy(interests)
                                     THEN interests.items ELSE <<"music">>,
                   limit         |-> 5] >>,
     activities |-> IF outcome = "raises" THEN <<>> ELSE events,
     raised |-> FALSE]

\* Mutant of recommend_activities: the recommend_events call is not wrapped in
\* try/except, so its exception leaves the function.
recommend_activities_NoCatch(risk_level, interests, location, outcome, events) ==
    IF ~InterestsTruthy(interests) \/ ~LocationTruthy(location)
    THEN [calls |-> <<>>, activities |-> <<>>, raised |-> FALSE]
    ELSE [calls |-> << [location      |-> location.text,
                        anxiety_level |-> AnxietyLevel(risk_level),
                        interests     |-> interests.items,
                        limit         |-> 5] >>,
          activities |-> IF outcome = "raises" THEN <<>> ELSE events,
          raised |-> outcome = "raises"]

\* recommend_activities: [calls, activities, raised].  `outcome` is what the
\* external recommend_events call does when it is made: it returns `events` or
\* raises; the except clause turns a raise into the empty list, so `raised`
\* (an exception leaving the function) is never set.
recommend_activities(risk_level, interests, location, outcome, events) ==
    IF ~InterestsTruthy(interests) \/ ~LocationTruthy(location)
    THEN [calls |-> <<>>, activities |-> <<>>, raised |-> FALSE]
    ELSE [calls |-> << [location      |-> location.text,
                        anxiety_level |-> AnxietyLevel(risk_level),
                        interests     |-> interests.items,
                        limit         |-> 5] >>,
          activities |-> IF outcome = "raises" THEN <<>> ELSE events,
          raised |-> FALSE]

\* Mutant of FetchActivities: the level is not looked at.
FetchActivities_NoGate(risk_level, interests, location, outcome, events) ==
    recommend_activities(risk_level, interests, location, outcome, events)

\* Lines 220-227 of run_intervention.
FetchActivities(risk_level, interests, location, outcome, events) ==
    IF risk_level # "critical"
    THEN recommend_activities(risk_level, interests, location, outcome, events)
    ELSE [calls |-> <<>>, activities |-> <<>>, raised |-> FALSE]

\* Mutant of ActionItems: once a call was critical, the crisis items are kept
\* for the next call whatever its level.
ActionItems_Sticky(risk_level) ==
    LET held == IF earlier.valid /\ earlier.level = "critical"
                THEN "critical" ELSE risk_level
    IN  CASE held \in {"low", "moderate"} ->
               << "Continue maintaining your current social connections",
                  "Consider trying one new social activity this week" >>
          [] held = "elevated" ->
               << "Reach out to a friend you haven't talked to in a while",
                  "Join one small group activity (see recommendations below)",
                  "Spend 10 minutes outside in a social space (coffee shop, park)" >>
          [] held = "high" ->
               << "Text or call one person you trust today",
                  "Schedule a low-pressure social activity within 3 days",
                  "Consider talking to a counselor or therapist",
                  "Join a structured group activity (less awkward than 'just hanging out')" >>
          [] held = "critical" ->
               << "Call or text someone you trust RIGHT NOW",
                  "Contact TAMU Counseling Services: (979) 845-4427",
                  "Call National Suicide Prevention Lifeline: 988",
                  "Go to a public place (don't stay isolated)" >>
          [] OTHER -> <<>>

\* Lines 229-255 of run_intervention.
ActionItems(risk_level) ==
    CASE risk_level \in {"low", "moderate"} ->
           << "Continue maintaining your current social connections",
              "Consider trying one new social activity this week" >>
      [] risk_level = "elevated" ->
           << "Reach out to a friend you haven't talked to in a while",
              "Join one small group activity (see recommendations below)",
              "Spend 10 minutes outside in a social space (coffee shop, park)" >>
      [] risk_level = "high" ->
           << "Text or call one person you trust today",
              "Schedule a low-pressure social activity within 3 days",
              "Consider talking to a counselor or therapist",
              "Join a structured group activity (less awkward than 'just hanging out')" >>
      [] risk_level = "critical" ->
           << "Call or text someone you trust RIGHT NOW",
              "Contact TAMU Counseling Services: (979) 845-4427",
              "Call National Suicide Prevention Lifeline: 988",
              "Go to a public place (don't stay isolated)" >>
      [] OTHER -> <<>>

NoLocation == [is_none |-> TRUE, text |-> ""]

\* Mutant of BuildPrompt: the crisis prompt only above 76.
BuildPrompt_Above76(risk_score, interests, location, activities) ==
    IF risk_score > 76
    THEN [kind |-> "crisis", interests |-> <<>>, location |-> NoLocation,
          activities_found |-> 0]
    ELSE [kind |-> "standard",
          interests |-> IF InterestsTruthy(interests) THEN interests.items
                        ELSE <<"Not specified">>,
          location |-> location,
          activities_found |-> Len(activities)]

\* Lines 270-297: the crisis prompt for score >= 76, else the standard prompt
\* followed by the interests, the location and the number of activities.
BuildPrompt(risk_score, interests, location, activities) ==
    IF risk_score >= 76
    THEN [kind |-> "crisis", interests |-> <<>>, location |-> NoLocation,
          activities_found |-> 0]
    ELSE [kind |-> "standard",
          interests |-> IF InterestsTruthy(interests) THEN interests.items
                        ELSE <<"Not specified">>,
          location |-> location,
          activities_found |-> Len(activities)]

NoMessage == [source |-> "", template |-> "", resources |-> {}, empty |-> TRUE]

\* Mutant of GenerateMessage: no except clause, a failing generator call
\* leaves run_intervention.
GenerateMessage_NoFallback(risk_level, llm) ==
    IF llm.outcome = "text"
    THEN [raised |-> FALSE,
          message |-> [source |-> "llm", template |-> "",
                       resources |-> llm.resources, empty |-> llm.empty]]
    ELSE [raised |-> TRUE, message |-> NoMessage]

\* Lines 299-325: the generator's text, or the template when the call raises
\* or returns no text (len(None) raises inside the try).
GenerateMessage(risk_level, llm) ==
    IF llm.outcome = "text"
    THEN [raised |-> FALSE,
          message |-> [source |-> "llm", template |-> "",
                       resources |-> llm.resources, empty |-> llm.empty]]
    ELSE [raised |-> FALSE, message |-> generate_empathetic_message(risk_level)]

\* Python truth value of Optional[str] user_id.
UserIdTruthy(u) == ~u.is_none /\ u.text # ""

NoInterventionId == [is_none |-> TRUE, id |-> ""]
NoEventId == [is_none |-> TRUE, id |-> 0, source |-> ""]

\* Lines 332-337: id and source of the first activity, if there is one.
FirstEvent(activities) ==
    IF Len(activities) > 0
    THEN [is_none |-> FALSE, id |-> activities[1].id,
          source |-> activities[1].source]
    ELSE NoEventId

\* Mutant of StoreIntervention: the store is not wrapped in try/except.
StoreIntervention_NoCatch(session, uid, risk_score, message, activities, outcome) ==
    IF session /\ UserIdTruthy(uid)
    THEN [calls |-> << [user_id    |-> uid.text,
                        risk_score |-> risk_score,
                        suggestion |-> message,
                        event      |-> FirstEvent(activities)] >>,
          intervention_id |-> IF outcome = "stored"
                              THEN [is_none |-> FALSE, id |-> "intervention-1"]
                              ELSE NoInterventionId,
          raised |-> outcome = "raises"]
    ELSE [calls |-> <<>>, intervention_id |-> NoInterventionId, raised |-> FALSE]

\* Lines 327-352: store_intervention is called when a session and a user id are
\* given; `outcome` is what the call does: it returns the stored row or raises.
\* A raise is caught and leaves intervention_id at None.
StoreIntervention(session, uid, risk_score, message, activities, outcome) ==
    IF session /\ UserIdTruthy(uid)
    THEN [calls |-> << [user_id    |-> uid.text,
                        risk_score |-> risk_score,
                        suggestion |-> message,
                        event      |-> FirstEvent(activities)] >>,
          intervention_id |-> IF outcome = "stored"
                              THEN [is_none |-> FALSE, id |-> "intervention-1"]
                              ELSE NoInterventionId,
          raised |-> FALSE]
    ELSE [calls |-> <<>>, intervention_id |-> NoInterventionId, raised |-> FALSE]

\* risk_assessment.get("level", "moderate"), risk_assessment.get("score", 50)
AssessmentLevel(ra) == IF ra.has_level THEN ra.level ELSE "moderate"
AssessmentScore(ra) == IF ra.has_score THEN ra.score ELSE 50

NoPrompt == [kind |-> "", interests |-> <<>>, location |-> NoLocation,
             activities_found |-> 0]
NoIntervention == [raised |-> FALSE, risk_level |-> "", risk_score |-> -1,
                   message |-> NoMessage, activities |-> <<>>,
                   action_items |-> <<>>, intervention_id |-> NoInterventionId]

\* run_intervention: [calls, prompt, store_calls, result].  An exception that
\* leaves one of the steps ends the call there: result.raised and nothing else.
run_intervention(ra, uid, interests, location, session, rec_outcome, events, llm, store_outcome) ==
    LET risk_level == AssessmentLevel(ra)
        risk_score == AssessmentScore(ra)
        fetched    == FetchActivities(risk_level, interests, location,
                                      rec_outcome, events)
        activities == fetched.activities
        user_context == BuildPrompt(risk_score, interests, location, activities)
        generated  == GenerateMessage(risk_level, llm)
        stored     == StoreIntervention(session, uid, risk_score,
                                        generated.message, activities,
                                        store_outcome)
        Aborted    == [NoIntervention EXCEPT !.raised = TRUE]
    IN  IF fetched.raised
        THEN [calls |-> fetched.calls, prompt |-> NoPrompt,
              store_calls |-> <<>>, result |-> Aborted]
        ELSE IF generated.raised
        THEN [calls |-> fetched.calls, prompt |-> user_context,
              store_calls |-> <<>>, result |-> Aborted]
        ELSE IF stored.raised
        THEN [calls |-> fetched.calls, prompt |-> user_context,
              store_calls |-> stored.calls, result |-> Aborted]
        ELSE [calls  |-> fetched.calls,
              prompt |-> user_context,
              store_calls |-> stored.calls,
              result |-> [raised          |-> FALSE,
                          risk_level      |-> risk_level,
                          risk_score      |-> risk_score,
                          message         |-> generated.message,
                          activities      |-> activities,
                          action_items    |-> ActionItems(risk_level),
                          intervention_id |-> stored.intervention_id]]

----------------------------------------------------------------------------
(* Detection agent.                                                         *)

\* Python truth value of an Optional[str] token.
TokenTruthy(t) == ~t.is_none /\ t.text # ""

\* The baseline run_detection receives: None, or a dict that may hold
\* mood_baseline.valence, music_patterns.daily_hours, social_event_frequency
\* and historical_risk.  `if baseline_data` is false for None and for {}.
DetectionBaselineKeys == {"valence", "daily_hours", "social_event_frequency",
                          "historical_risk"}
DetectionBaselineTruthy(b) ==
    ~b.is_none /\ \E k \in DetectionBaselineKeys : b[k] # Missing

\* The same baseline as calculate_baseline_risk reads it.
CalculatorBaseline(b) ==
    [is_none         |-> b.is_none,
     other_keys      |-> ~b.is_none /\ \E k \in DetectionBaselineKeys \ {"historical_risk"} :
                                          b[k] # Missing,
     historical_risk |-> b.historical_risk]

\* except branch of the Spotify block (lines 238-248)
SpotifyErrorDefaults ==
    [baseline_listening_hours |-> Num(90), current_listening_hours |-> Num(90),
     late_night_percentage |-> Num(0), baseline_valence |-> Dec(50),
     current_valence |-> Dec(50), repeat_listening_percentage |-> Num(0)]
\* else branch of the Spotify block (lines 249-258)
SpotifyNoTokenDefaults ==
    [baseline_listening_hours |-> Num(90), current_listening_hours |-> Num(90),
     late_night_percentage |-> Num(0), baseline_valence |-> Dec(50),
     current_valence |-> Dec(50), repeat_listening_percentage |-> Num(0)]

\* Mutant of CalendarErrorDefaults: a failed fetch leaves the initial {}.
CalendarErrorDefaults_Empty == EmptyCalendar

\* except branch of the Calendar block (lines 291-301)
CalendarErrorDefaults ==
    [baseline_social_events |-> Num(8), current_social_events |-> Num(8),
     declined_invitation_rate |-> Num(0), declined_invitations_count |-> Num(0),
     baseline_unique_contacts |-> Num(5), current_unique_contacts |-> Num(5)]
\* else branch of the Calendar block (lines 302-311)
CalendarNoTokenDefaults ==
    [baseline_social_events |-> Num(8), current_social_events |-> Num(8),
     declined_invitation_rate |-> Num(0), declined_invitations_count |-> Num(0),
     baseline_unique_contacts |-> Num(5), current_unique_contacts |-> Num(5)]

\* Lines 205-258.  `outcome` is what the SpotifyTool calls do: one of them
\* raises, or they return mood_data (whose keys are those of
\* calculate_enhanced_mood_metrics: a valence when tracks were found, never
\* total_listening_hours or repeat_percentage) and late_night_data.
FetchSpotify(spotify_token, baseline, outcome) ==
    IF TokenTruthy(spotify_token)
    THEN [attempted |-> TRUE,
          metrics |->
            IF outcome.kind = "raises" THEN SpotifyErrorDefaults
            ELSE LET mood_data == [total_listening_hours |-> Missing,
                                   valence |-> outcome.valence,
                                   repeat_percentage |-> Missing]
                     late_night_data ==
                         [late_night_percentage |-> outcome.late_night_percentage]
                     truthy == DetectionBaselineTruthy(baseline)
                 IN  [baseline_listening_hours |->
                          IF truthy
                          THEN RMul(Get(baseline, "daily_hours", Num(3)), Num(30))
                          ELSE Num(90),
                      current_listening_hours |->
                          Get(mood_data, "total_listening_hours", Num(90)),
                      late_night_percentage |->
                          Get(late_night_data, "late_night_percentage", Num(0)),
                      baseline_valence |->
                          IF truthy THEN Get(baseline, "valence", Dec(50))
                          ELSE Dec(50),
                      current_valence |-> Get(mood_data, "valence", Dec(50)),
                      repeat_listening_percentage |->
                          Get(mood_data, "repeat_percentage", Num(0))]]
    ELSE [attempted |-> FALSE, metrics |-> SpotifyNoTokenDefaults]

\* Lines 260-311.  `outcome` is what the CalendarTool calls do.  When they
\* return, social_patterns has no social_event_count and contacts_data no
\* recurring_contacts (calendar_tool.py 307-311, 405-412).
FetchCalendar(calendar_token, baseline, outcome) ==
    IF TokenTruthy(calendar_token)
    THEN [attempted |-> TRUE,
          metrics |->
            IF outcome.kind = "raises" THEN CalendarErrorDefaults
            ELSE LET social_patterns == [social_event_count |-> Missing]
                     declined_data == [decline_rate |-> outcome.decline_rate,
                                       declined_count |-> outcome.declined_count]
                 IN  [baseline_social_events |->
                          IF DetectionBaselineTruthy(baseline)
                          THEN Get(baseline, "social_event_frequency", Num(8))
                          ELSE Num(8),
                      current_social_events |->
                          Get(social_patterns, "social_event_count", Num(8)),
                      declined_invitation_rate |->
                          Get(declined_data, "decline_rate", Num(0)),
                      declined_invitations_count |->
                          Get(declined_data, "declined_count", Num(0)),
                      baseline_unique_contacts |-> Num(5),
                      current_unique_contacts |-> Num(0)]]
    ELSE [attempted |-> FALSE, metrics |-> CalendarNoTokenDefaults]

\* The analyzer blocks entered, in the order they are entered.
FetchCalls(sp, cal) ==
    (IF sp.attempted THEN <<"spotify">> ELSE <<>>)
    \o (IF cal.attempted THEN <<"calendar">> ELSE <<>>)

\* Mutant of run_detection: one try block around both fetches, so a failing
\* Spotify fetch skips the Calendar block.
run_detection_SharedTry(calendar_token, spotify_token, baseline, spotify_outcome, calendar_outcome) ==
    LET sp  == FetchSpotify(spotify_token, baseline, spotify_outcome)
        skipped == sp.attempted /\ spotify_outcome.kind = "raises"
        cal == IF skipped
               THEN [attempted |-> FALSE, metrics |-> CalendarErrorDefaults]
               ELSE FetchCalendar(calendar_token, baseline, calendar_outcome)
        bd  == CalculatorBaseline(baseline)
        after == ArgumentsAfter(sp.metrics, cal.metrics, bd)
    IN  [calls            |-> FetchCalls(sp, cal),
         passed           |-> [spotify_metrics |-> sp.metrics,
                               calendar_metrics |-> cal.metrics,
                               baseline_data |-> bd],
         spotify_metrics  |-> after.spotify_metrics,
         calendar_metrics |-> after.calendar_metrics,
         baseline_data    |-> after.baseline_data,
         risk_assessment  |-> calculate_risk(sp.metrics, cal.metrics, bd)]

\* run_detection: the Spotify block, then the Calendar block, then
\* calculate_loneliness_risk_score on what the two blocks left.
run_detection(calendar_token, spotify_token, baseline, spotify_outcome, calendar_outcome) ==
    LET sp  == FetchSpotify(spotify_token, baseline, spotify_outcome)
        cal == FetchCalendar(calendar_token, baseline, calendar_outcome)
        bd  == CalculatorBaseline(baseline)
        after == ArgumentsAfter(sp.metrics, cal.metrics, bd)
    IN  [calls            |-> FetchCalls(sp, cal),
         passed           |-> [spotify_metrics |-> sp.metrics,
                               calendar_metrics |-> cal.metrics,
                               baseline_data |-> bd],
         spotify_metrics  |-> after.spotify_metrics,
         calendar_metrics |-> after.calendar_metrics,
         baseline_data    |-> after.baseline_data,
         risk_assessment  |-> calculate_risk(sp.metrics, cal.metrics, bd)]

----------------------------------------------------------------------------
(* Calendar permission (backend/api/routes.py, backend/models/permissions.py). *)

\* A nullable String column: None, or a stored text.  Cipher texts are
\* modelled as <<"fernet", token>>, the empty string as <<>>.
NoneColumn == [is_none |-> TRUE, value |-> <<>>]
StoredColumn(v) == [is_none |-> FALSE, value |-> v]
ColumnTruthy(c) == ~c.is_none /\ c.value # <<>>

\* core/encryption.py: the empty token is not encrypted; decrypt_token undoes
\* encrypt_token under the same SECRET_KEY.
encrypt_token(token) == IF token = "" THEN <<>> ELSE <<"fernet", token>>
decrypt_token(encrypted_token) ==
    IF encrypted_token = <<>> THEN "" ELSE encrypted_token[2]

\* The permissions row of the user: absent, or with its calendar columns.
NoRow == [exists |-> FALSE, calendar_enabled |-> "false",
          google_access_token |-> NoneColumn, google_refresh_token |-> NoneColumn]
\* Permission(user_id=...) with the column defaults.
NewPermission == [NoRow EXCEPT !.exists = TRUE]

set_google_token(row, token) ==
    [row EXCEPT !.google_access_token =
                    IF token # "" THEN StoredColumn(encrypt_token(token))
                    ELSE NoneColumn]

get_google_token(row) ==
    IF ColumnTruthy(row.google_access_token)
    THEN decrypt_token(row.google_access_token.value) ELSE ""

\* The row a handler works on: the stored one, or a new one added to the
\* session (persisted only by a commit).
QueryOrCreate(stored) == IF stored.exists THEN stored ELSE NewPermission

\* Mutant of connect_calendar: enabling does not look at the stored token.
connect_calendar_NoOAuthGate(stored, enabled) ==
    LET perm == QueryOrCreate(stored)
        has_token  == get_google_token(perm) # ""
        access_token == get_google_token(perm)
        cleared == IF ~enabled
                   THEN [perm EXCEPT !.google_access_token = NoneColumn,
                                     !.google_refresh_token = NoneColumn]
                   ELSE perm
    IN  [permission |-> [cleared EXCEPT !.calendar_enabled =
                                            IF enabled THEN "true" ELSE "false"],
         result |-> "success", needs_oauth |-> FALSE, has_token |-> has_token,
         revoked |-> IF ~enabled /\ access_token # "" THEN <<access_token>>
                     ELSE <<>>]

\* connect_calendar (routes.py 387-450): [permission, result, needs_oauth,
\* has_token, revoked].  `permission` is the row as stored when the handler
\* returns: the needs_oauth return comes before any commit.
connect_calendar(stored, enabled) ==
    LET perm == QueryOrCreate(stored)
        has_token  == get_google_token(perm) # ""
        access_token == get_google_token(perm)
        cleared == IF ~enabled
                   THEN [perm EXCEPT !.google_access_token = NoneColumn,
                                     !.google_refresh_token = NoneColumn]
                   ELSE perm
    IN  IF enabled /\ ~has_token
        THEN [permission |-> stored, result |-> "needs_oauth",
              needs_oauth |-> TRUE, has_token |-> has_token, revoked |-> <<>>]
        ELSE [permission |-> [cleared EXCEPT !.calendar_enabled =
                                                 IF enabled THEN "true" ELSE "false"],
              result |-> "success", needs_oauth |-> FALSE,
              has_token |-> has_token,
              revoked |-> IF ~enabled /\ access_token # "" THEN <<access_token>>
                          ELSE <<>>]

\* google_calendar_callback (routes.py 616-741): [permission, result].  `cb`
\* is what the request carries and what Google's token and userinfo endpoints
\* and the user lookup answer.  Every return before the commit, and the except
\* clause, leave the stored row as it was.
google_calendar_callback(stored, cb) ==
    IF cb.error THEN [permission |-> stored, result |-> "google_oauth_error"]
    ELSE IF ~cb.code THEN [permission |-> stored, result |-> "no_auth_code"]
    ELSE IF cb.exchange = "raises"
    THEN [permission |-> stored, result |-> "exception"]
    ELSE IF cb.exchange # "200"
    THEN [permission |-> stored, result |-> "calendar_auth_failed"]
    ELSE IF cb.userinfo # "200"
    THEN [permission |-> stored, result |-> "user_info_failed"]
    ELSE IF ~cb.user_found
    THEN [permission |-> stored, result |-> "user_not_found"]
    ELSE IF cb.access_token = ""
    THEN [permission |-> stored, result |-> "no_access_token"]
    ELSE LET perm == set_google_token(QueryOrCreate(stored), cb.access_token)
             with_refresh ==
                 IF cb.refresh_token # ""
                 THEN [perm EXCEPT !.google_refresh_token =
                                       StoredColumn(encrypt_token(cb.refresh_token))]
                 ELSE perm
         IN  [permission |-> [with_refresh EXCEPT !.calendar_enabled = "true"],
              result |-> "connected"]

\* get_permissions (routes.py 364-376): the default row is created and
\* committed when the user has none.
get_permissions(stored) == QueryOrCreate(stored)

----------------------------------------------------------------------------
(* Inputs.                                                                  *)

MaxActivities == 2      \* events a recommend_events call returns, at most

\* (baseline, current) listening hours
HoursPairs == { <<Num(15), Num(15)>>, <<Num(16), Num(20)>>,
                <<Num(15), Num(45)>>, <<Num(0), Num(20)>> }
LateNightVals == { Num(-20), Num(0), Num(45), Num(85) }
\* (baseline, current) valence
ValencePairs == { <<Dec(50), Dec(50)>>, <<Dec(70), Dec(50)>>,
                  <<Dec(70), Dec(25)>> }
RepeatVals == { Num(0), Num(65) }

\* (baseline, current) social events
EventPairs == { <<Num(8), Num(8)>>, <<Num(8), Num(4)>>, <<Num(8), Num(0)>>,
                <<Num(8), Num(10)>>, <<Num(0), Num(2)>>, <<Num(0), Num(-1)>> }
\* (declined_invitation_rate, declined_invitations_count)
DeclinedPairs == { <<Num(0), Num(0)>>, <<Num(25), Num(1)>>,
                   <<Num(100), Num(3)>> }
\* (baseline, current) unique contacts
ContactPairs == { <<Num(5), Num(5)>>, <<Num(5), Num(3)>>, <<Num(5), Num(0)>>,
                  <<Num(0), Num(3)>> }

\* test_invalid_data: negative hours, percentage above 100, valence outside [0,1]
InvalidSpotify ==
    [baseline_listening_hours |-> Num(-5), current_listening_hours |-> Num(200),
     late_night_percentage |-> Num(150), baseline_valence |-> Dec(150),
     current_valence |-> Dec(-30), repeat_listening_percentage |-> Missing]
InvalidCalendar ==
    [EmptyCalendar EXCEPT !["baseline_social_events"] = Num(10),
                          !["current_social_events"] = Num(-2)]
\* test_partial_data: only some fields present
PartialSpotify ==
    [EmptySpotify EXCEPT !["current_listening_hours"] = Num(25)]
\* a negative repeat percentage, alone and with every other factor saturated
NegativeRepeatSpotify ==
    { [EmptySpotify EXCEPT !["repeat_listening_percentage"] = Num(-8)],
      [baseline_listening_hours |-> Num(15), current_listening_hours |-> Num(45),
       late_night_percentage |-> Num(85), baseline_valence |-> Dec(70),
       current_valence |-> Dec(25), repeat_listening_percentage |-> Num(-8)] }
PartialCalendar ==
    [EmptyCalendar EXCEPT !["baseline_social_events"] = Num(5),
                          !["current_social_events"] = Num(2)]

\* every factor exactly at the value from which it is saturated
ThresholdSpotify ==
    [baseline_listening_hours |-> Num(15), current_listening_hours |-> Num(31),
     late_night_percentage |-> Num(50), baseline_valence |-> Dec(80),
     current_valence |-> Dec(50), repeat_listening_percentage |-> Num(40)]
ThresholdCalendar ==
    [baseline_social_events |-> Num(8), current_social_events |-> Num(2),
     declined_invitation_rate |-> Num(50), declined_invitations_count |-> Num(2),
     baseline_unique_contacts |-> Num(6), current_unique_contacts |-> Num(3)]

\* more contacts than at baseline, with a declined-invitation rate of 50
MoreContactsCalendar ==
    [EmptyCalendar EXCEPT !["declined_invitation_rate"] = Num(50),
                          !["declined_invitations_count"] = Num(2),
                          !["baseline_unique_contacts"] = Num(10),
                          !["current_unique_contacts"] = Num(12)]

SpotifyInputs ==
    { [baseline_listening_hours    |-> h[1],
       current_listening_hours     |-> h[2],
       late_night_percentage       |-> l,
       baseline_valence            |-> v[1],
       current_valence             |-> v[2],
       repeat_listening_percentage |-> r]
      : h \in HoursPairs, l \in LateNightVals, v \in ValencePairs,
        r \in RepeatVals }
    \cup {EmptySpotify, PartialSpotify, InvalidSpotify, ThresholdSpotify}
    \cup NegativeRepeatSpotify

CalendarInputs ==
    { [baseline_social_events     |-> e[1],
       current_social_events      |-> e[2],
       declined_invitation_rate   |-> d[1],
       declined_invitations_count |-> d[2],
       baseline_unique_contacts   |-> c[1],
       current_unique_contacts    |-> c[2]]
      : e \in EventPairs, d \in DeclinedPairs, c \in ContactPairs }
    \cup {EmptyCalendar, PartialCalendar, InvalidCalendar, ThresholdCalendar,
          MoreContactsCalendar}

NoBaseline == [is_none |-> TRUE, other_keys |-> FALSE, historical_risk |-> Missing]

BaselineInputs ==
    { NoBaseline,                                                    \* None
      [is_none |-> FALSE, other_keys |-> FALSE, historical_risk |-> Missing],  \* {}
      [is_none |-> FALSE, other_keys |-> TRUE, historical_risk |-> Missing] }
    \cup { [is_none |-> FALSE, other_keys |-> TRUE, historical_risk |-> Num(h)]
           : h \in {-5, 55, 150} }

NoAssessment == [has_score |-> FALSE, score |-> 0, has_level |-> FALSE, level |-> ""]

\* Assessments a caller builds itself (the generate_intervention tool).
ScoreInputs == {0, 25, 50, 75, 76, 100}
LevelInputs == {"low", "mild", "moderate", "elevated", "high", "critical"}
SuppliedAssessments ==
    { [has_score |-> TRUE, score |-> sc, has_level |-> TRUE, level |-> lv]
      : sc \in ScoreInputs, lv \in LevelInputs }
    \cup {NoAssessment}                                              \* {}

InterestsInputs == { [is_none |-> TRUE, items |-> <<>>],
                     [is_none |-> FALSE, items |-> <<>>],
                     [is_none |-> FALSE, items |-> <<"music", "hiking">>] }
LocationInputs == { NoLocation,
                    [is_none |-> FALSE, text |-> ""],
                    [is_none |-> FALSE, text |-> "College Station, TX"] }

\* The events a recommend_events call may return.
Events(n) == [i \in 1..n |-> [id |-> i, source |-> "meetup"]]
EventLists == { Events(n) : n \in 0..MaxActivities }

\* What the message generator may do: return a text (which holds all the
\* crisis resources or none of them), raise, or return a response without text.
LlmOutcomes == { [outcome |-> "text", resources |-> CrisisResources, empty |-> FALSE],
                 [outcome |-> "text", resources |-> {}, empty |-> FALSE],
                 [outcome |-> "text", resources |-> {}, empty |-> TRUE],
                 [outcome |-> "raises", resources |-> {}, empty |-> TRUE],
                 [outcome |-> "no_text", resources |-> {}, empty |-> TRUE] }

NoUserId == [is_none |-> TRUE, text |-> ""]
UserIdInputs == { NoUserId,
                  [is_none |-> FALSE, text |-> ""],
                  [is_none |-> FALSE, text |-> "user-1"] }

NoResult == [raised |-> FALSE, score |-> -1, level |-> "", factors |-> NoFactors,
             explanation |-> <<>>]
NoEnv == [llm |-> [outcome |-> "", resources |-> {}, empty |-> TRUE],
          recommender |-> "", store |-> ""]
NoInterests == [is_none |-> TRUE, items |-> <<>>]

NoToken == [is_none |-> TRUE, text |-> ""]
TokenInputs == { NoToken,
                 [is_none |-> FALSE, text |-> ""],
                 [is_none |-> FALSE, text |-> "token"] }

\* What the SpotifyTool calls of one run_detection do.
SpotifyNotCalled == [kind |-> "not_called", valence |-> Missing,
                     late_night_percentage |-> Missing]
SpotifyOutcomes ==
    { SpotifyNotCalled,
      [kind |-> "raises", valence |-> Missing, late_night_percentage |-> Missing] }
    \cup { [kind |-> "returns", valence |-> v, late_night_percentage |-> l]
           : v \in {Missing, Dec(50), Dec(20)}, l \in {Num(0), Num(46)} }

\* What the CalendarTool calls of one run_detection do: run_detection passes
\* baseline_frequency= to analyze_social_patterns(self, days_back), so the call
\* raises TypeError whenever it is made.
CalendarOutcomes ==
    { [kind |-> "raises", decline_rate |-> Missing, declined_count |-> Missing] }

NoDetectionBaseline ==
    [is_none |-> TRUE, valence |-> Missing, daily_hours |-> Missing,
     social_event_frequency |-> Missing, historical_risk |-> Missing]
DetectionBaselines ==
    { NoDetectionBaseline,
      [NoDetectionBaseline EXCEPT !.is_none = FALSE],                \* {}
      [is_none |-> FALSE, valence |-> Dec(70), daily_hours |-> Num(2),
       social_event_frequency |-> Num(10), historical_risk |-> Missing],
      [is_none |-> FALSE, valence |-> Missing, daily_hours |-> Missing,
       social_event_frequency |-> Missing, historical_risk |-> Num(55)] }

NoDetection == [ran |-> FALSE, calendar_token |-> NoToken,
                spotify_token |-> NoToken, baseline |-> NoDetectionBaseline,
                spotify_outcome |-> SpotifyNotCalled,
                calendar_outcome |-> [kind |-> "raises", decline_rate |-> Missing,
                                      declined_count |-> Missing],
                calls |-> <<>>]

\* The test_high_risk_score listening metrics.
SaturatedSpotify ==
    [baseline_listening_hours |-> Num(15), current_listening_hours |-> Num(45),
     late_night_percentage |-> Num(85), baseline_valence |-> Dec(70),
     current_valence |-> Dec(25), repeat_listening_percentage |-> Num(65)]

\* Inputs of calls that are made again after an earlier call was remembered.
RepeatSpotify == {EmptySpotify, PartialSpotify, SaturatedSpotify,
                  SpotifyNoTokenDefaults}
RepeatCalendar == {EmptyCalendar, PartialCalendar, CalendarNoTokenDefaults}
RepeatBaseline == { NoBaseline,
                    [is_none |-> FALSE, other_keys |-> TRUE,
                     historical_risk |-> Num(55)] }
NoArguments == [spotify_metrics |-> EmptySpotify,
                calendar_metrics |-> EmptyCalendar, baseline_data |-> NoBaseline]
NoPrevious == [valid |-> FALSE, spotify_metrics |-> EmptySpotify,
               calendar_metrics |-> EmptyCalendar, baseline_data |-> NoBaseline,
               risk_result |-> NoResult]

\* run_intervention calls that are made again after an earlier call was
\* remembered: every level at score 50 and the empty assessment, without user
\* id and session, with or without interests and location.
RepeatAssessments ==
    { [has_score |-> TRUE, score |-> 50, has_level |-> TRUE, level |-> lv]
      : lv \in LevelInputs }
    \cup {NoAssessment}
RepeatLlm == { [outcome |-> "text", resources |-> {}, empty |-> FALSE],
              [outcome |-> "raises", resources |-> {}, empty |-> TRUE] }
RepeatCall(ra, uid, interests, location, session, recommender, activities, llm, store) ==
    /\ ra \in RepeatAssessments
    /\ uid = NoUserId
    /\ ~session
    /\ interests \in {NoInterests, [is_none |-> FALSE, items |-> <<"music", "hiking">>]}
    /\ location \in {NoLocation, [is_none |-> FALSE, text |-> "College Station, TX"]}
    /\ recommender \in {"not_called", "returns"}
    /\ Len(activities) <= 1
    /\ llm \in RepeatLlm
    /\ store \in {"not_called", "stored"}
NoEarlier == [valid |-> FALSE, level |-> "", action_items |-> <<>>]

\* Scores get_risk_level is called on directly: every integer of the domain,
\* some outside it, and values between two categories.
ClassifyInputs == { Num(s) : s \in -2..102 }
                  \cup { Dec(2550), Dec(5001), Dec(7599), Dec(-1), Dec(10001) }
NoClassified == [score |-> Missing, level |-> "", raised |-> FALSE]

\* Tokens Google's token endpoint may return.
AccessTokens == {"ya29.a", "ya29.b", "ya29.c"}
RefreshTokens == {"1//r1", "1//r2"}

\* A callback that goes through, and the ways it may end early.
OkCallback == [error |-> FALSE, code |-> TRUE, exchange |-> "200",
               userinfo |-> "200", user_found |-> TRUE,
               access_token |-> "ya29.a", refresh_token |-> ""]
CallbackInputs ==
    { [OkCallback EXCEPT !.access_token = a, !.refresh_token = r]
      : a \in AccessTokens, r \in RefreshTokens \cup {""} }
    \cup { [OkCallback EXCEPT !.error = TRUE, !.code = FALSE],
           [OkCallback EXCEPT !.code = FALSE],
           [OkCallback EXCEPT !.exchange = "raises"],
           [OkCallback EXCEPT !.exchange = "400"],
           [OkCallback EXCEPT !.userinfo = "401"],
           [OkCallback EXCEPT !.user_found = FALSE],
           [OkCallback EXCEPT !.access_token = ""] }

NoResponse == [op |-> "", enabled |-> FALSE, callback |-> OkCallback,
               before |-> NoRow, result |-> "", needs_oauth |-> FALSE,
               has_token |-> FALSE, revoked |-> <<>>]

----------------------------------------------------------------------------
(* The state machine.                                                       *)

calcVars == <<spotify_metrics, calendar_metrics, baseline_data, passed,
              risk_result>>
intervVars == <<user_id, db_session, user_interests, user_location, env,
                recommender_calls, store_calls, prompt, intervention>>
permVars == <<permission, response>>
engineVars == <<pc, calcVars, previous, detection, risk_assessment,
                from_calculator, intervVars, earlier, classified>>

Init ==
    /\ pc = "start"
    /\ spotify_metrics = EmptySpotify
    /\ calendar_metrics = EmptyCalendar
    /\ baseline_data = NoBaseline
    /\ passed = NoArguments
    /\ risk_result = NoResult
    /\ previous = NoPrevious
    /\ detection = NoDetection
    /\ risk_assessment = NoAssessment
    /\ from_calculator = FALSE
    /\ user_id = NoUserId
    /\ db_session = FALSE
    /\ user_interests = NoInterests
    /\ user_location = NoLocation
    /\ env = NoEnv
    /\ recommender_calls = <<>>
    /\ store_calls = <<>>
    /\ prompt = NoPrompt
    /\ intervention = NoIntervention
    /\ earlier = NoEarlier
    /\ classified = NoClassified
    /\ permission = NoRow
    /\ response = NoResponse

\* An earlier call of the calculator or of run_intervention is remembered.
Repeating == previous.valid \/ earlier.valid

\* RiskCalculator.calculate_risk is called on some metrics and baseline.  Once
\* an earlier call is remembered, the inputs come from the repeated ones.
CalculateRisk ==
    /\ UNCHANGED permVars
    /\ pc = "start"
    /\ \E sm \in (IF Repeating THEN RepeatSpotify ELSE SpotifyInputs),
          cm \in (IF Repeating THEN RepeatCalendar ELSE CalendarInputs),
          bd \in (IF Repeating THEN RepeatBaseline ELSE BaselineInputs) :
          /\ passed' = [spotify_metrics |-> sm, calendar_metrics |-> cm,
                         baseline_data |-> bd]
          /\ spotify_metrics' = ArgumentsAfter(sm, cm, bd).spotify_metrics
          /\ calendar_metrics' = ArgumentsAfter(sm, cm, bd).calendar_metrics
          /\ baseline_data' = ArgumentsAfter(sm, cm, bd).baseline_data
          /\ risk_result' = calculate_risk(sm, cm, bd)
    /\ pc' = "assessed"
    /\ earlier' = NoEarlier
    /\ UNCHANGED <<previous, detection, risk_assessment, from_calculator,
                   intervVars, classified>>

\* run_detection, start to return: both fetches and the calculate_risk call.
RunDetection ==
    /\ UNCHANGED permVars
    /\ pc = "start"
    /\ \E calendar_token \in TokenInputs, spotify_token \in TokenInputs,
          baseline \in DetectionBaselines,
          spotify_outcome \in SpotifyOutcomes,
          calendar_outcome \in CalendarOutcomes :
          LET r == run_detection(calendar_token, spotify_token, baseline,
                                 spotify_outcome, calendar_outcome)
          IN  /\ ~TokenTruthy(spotify_token) => spotify_outcome = SpotifyNotCalled
              /\ TokenTruthy(spotify_token) => spotify_outcome # SpotifyNotCalled
              /\ detection' = [ran              |-> TRUE,
                               calendar_token   |-> calendar_token,
                               spotify_token    |-> spotify_token,
                               baseline         |-> baseline,
                               spotify_outcome  |-> spotify_outcome,
                               calendar_outcome |-> calendar_outcome,
                               calls            |-> r.calls]
              /\ passed' = r.passed
              /\ spotify_metrics' = r.spotify_metrics
              /\ calendar_metrics' = r.calendar_metrics
              /\ baseline_data' = r.baseline_data
              /\ risk_result' = r.risk_assessment
    /\ pc' = "assessed"
    /\ earlier' = NoEarlier
    /\ UNCHANGED <<previous, risk_assessment, from_calculator, intervVars,
                   classified>>

\* The call just made, as a later call will remember it.
Remembered ==
    IF /\ pc = "assessed"
       /\ passed.spotify_metrics \in RepeatSpotify
       /\ passed.calendar_metrics \in RepeatCalendar
       /\ passed.baseline_data \in RepeatBaseline
    THEN [valid |-> TRUE, spotify_metrics |-> passed.spotify_metrics,
          calendar_metrics |-> passed.calendar_metrics,
          baseline_data |-> passed.baseline_data, risk_result |-> risk_result]
    ELSE previous

\* The assessment is returned to the caller, which passes it on to
\* run_intervention; the metrics go out of scope.
HandOff ==
    /\ UNCHANGED permVars
    /\ pc = "assessed"
    /\ ~risk_result.raised
    /\ risk_assessment' = [has_score |-> TRUE, score |-> risk_result.score,
                           has_level |-> TRUE, level |-> risk_result.level]
    /\ from_calculator' = TRUE
    /\ spotify_metrics' = EmptySpotify
    /\ calendar_metrics' = EmptyCalendar
    /\ baseline_data' = NoBaseline
    /\ passed' = NoArguments
    /\ risk_result' = NoResult
    /\ previous' = NoPrevious
    /\ detection' = NoDetection
    /\ pc' = "handed"
    /\ UNCHANGED <<intervVars, earlier, classified>>

\* A caller builds the assessment itself from a score and a level label.
SupplyAssessment ==
    /\ UNCHANGED permVars
    /\ pc = "start"
    /\ \E ra \in (IF earlier.valid THEN RepeatAssessments
                   ELSE SuppliedAssessments) : risk_assessment' = ra
    /\ from_calculator' = FALSE
    /\ previous' = NoPrevious
    /\ pc' = "handed"
    /\ UNCHANGED <<calcVars, detection, intervVars, earlier, classified>>

\* run_intervention, start to return.
RunIntervention ==
    /\ UNCHANGED permVars
    /\ pc = "handed"
    /\ \E uid \in UserIdInputs, interests \in InterestsInputs,
          location \in LocationInputs, session \in BOOLEAN,
          rec_outcome \in {"returns", "raises"}, events \in EventLists,
          llm \in LlmOutcomes, store_outcome \in {"stored", "raises"} :
          LET r == run_intervention(risk_assessment, uid, interests, location,
                                    session, rec_outcome, events, llm,
                                    store_outcome)
          IN  /\ rec_outcome = "raises" => events = <<>>
              /\ r.calls = <<>> => (rec_outcome = "returns" /\ events = <<>>)
              /\ r.store_calls = <<>> => store_outcome = "stored"
              /\ earlier.valid =>
                    RepeatCall(risk_assessment, uid, interests, location,
                               session, rec_outcome, events, llm, store_outcome)
              /\ user_id' = uid
              /\ db_session' = session
              /\ user_interests' = interests
              /\ user_location' = location
              /\ env' = [llm |-> llm,
                         recommender |-> IF r.calls = <<>> THEN "not_called"
                                         ELSE rec_outcome,
                         store |-> IF r.store_calls = <<>> THEN "not_called"
                                   ELSE store_outcome]
              /\ recommender_calls' = r.calls
              /\ store_calls' = r.store_calls
              /\ prompt' = r.prompt
              /\ intervention' = r.result
    /\ pc' = "intervened"
    /\ UNCHANGED <<calcVars, previous, detection, risk_assessment,
                   from_calculator, earlier, classified>>

\* The run_intervention call just made, as the next call will remember it.
RememberedIntervention ==
    IF /\ pc = "intervened"
       /\ ~intervention.raised
       /\ RepeatCall(risk_assessment, user_id, user_interests, user_location,
                     db_session, env.recommender, intervention.activities,
                     env.llm, env.store)
    THEN [valid |-> TRUE, level |-> intervention.risk_level,
          action_items |-> intervention.action_items]
    ELSE NoEarlier

\* The call is over; the next request starts from scratch.
Finish ==
    /\ UNCHANGED permVars
    /\ pc \in {"assessed", "intervened", "classified"}
    /\ pc' = "start"
    /\ previous' = Remembered
    /\ spotify_metrics' = EmptySpotify
    /\ calendar_metrics' = EmptyCalendar
    /\ baseline_data' = NoBaseline
    /\ passed' = NoArguments
    /\ risk_result' = NoResult
    /\ detection' = NoDetection
    /\ risk_assessment' = NoAssessment
    /\ from_calculator' = FALSE
    /\ user_id' = NoUserId
    /\ db_session' = FALSE
    /\ user_interests' = NoInterests
    /\ user_location' = NoLocation
    /\ env' = NoEnv
    /\ recommender_calls' = <<>>
    /\ store_calls' = <<>>
    /\ prompt' = NoPrompt
    /\ intervention' = NoIntervention
    /\ earlier' = RememberedIntervention
    /\ classified' = NoClassified

\* RiskCalculator.get_risk_level is called directly on a score.
GetRiskLevel ==
    /\ UNCHANGED permVars
    /\ pc = "start"
    /\ \E s \in ClassifyInputs :
          classified' = [score  |-> s,
                         level  |-> GetRiskLevelCall(s).level,
                         raised |-> GetRiskLevelCall(s).raised]
    /\ pc' = "classified"
    /\ earlier' = NoEarlier
    /\ UNCHANGED <<calcVars, previous, detection, risk_assessment,
                   from_calculator, intervVars>>

Next ==
    \/ CalculateRisk
    \/ RunDetection
    \/ HandOff
    \/ SupplyAssessment
    \/ RunIntervention
    \/ GetRiskLevel
    \/ Finish

Spec == Init /\ [][Next]_vars

\* POST /user/permissions/calendar with {"enabled": enabled}.
ConnectCalendar ==
    /\ pc = "start"
    /\ \E enabled \in BOOLEAN :
          LET r == connect_calendar(permission, enabled)
          IN  /\ permission' = r.permission
              /\ response' = [NoResponse EXCEPT !.op = "connect_calendar",
                                                !.enabled = enabled,
                                                !.before = permission,
                                                !.result = r.result,
                                                !.needs_oauth = r.needs_oauth,
                                                !.has_token = r.has_token,
                                                !.revoked = r.revoked]
    /\ UNCHANGED engineVars

\* GET /auth/google/calendar-callback.
GoogleCalendarCallback ==
    /\ pc = "start"
    /\ \E cb \in CallbackInputs :
          LET r == google_calendar_callback(permission, cb)
          IN  /\ permission' = r.permission
              /\ response' = [NoResponse EXCEPT !.op = "google_calendar_callback",
                                                !.callback = cb,
                                                !.before = permission,
                                                !.result = r.result]
    /\ UNCHANGED engineVars

\* GET /user/permissions.
GetPermissions ==
    /\ pc = "start"
    /\ permission' = get_permissions(permission)
    /\ response' = [NoResponse EXCEPT !.op = "get_permissions",
                                      !.before = permission,
                                      !.result = "success"]
    /\ UNCHANGED engineVars

PermNext ==
    \/ ConnectCalendar
    \/ GoogleCalendarCallback
    \/ GetPermissions

\* The permission endpoints alone, on the row of one user.
PermSpec == Init /\ [][PermNext]_vars

----------------------------------------------------------------------------
(* Claims.                                                                  *)

Assessed == pc = "assessed" /\ ~risk_result.raised
Intervened == pc = "intervened"
InRange(q) == RLe(Num(0), q) /\ RLe(q, Num(100))

\* C1: every score calculate_risk returns is an integer with 0 <= score <= 100,
\* whatever the metric values and the baseline.
C1_ScoreInRange == Assessed => risk_result.score \in 0..100

\* A call whose weighted sum is negative (a negative late-night percentage)
\* and whose reported score is the clamped 0.
C1_Witness ==
    /\ Assessed
    /\ RLt(spotify_metrics.late_night_percentage, Num(0))
    /\ RLt(WeightedSum(calculate_spotify_score(spotify_metrics),
                       calculate_calendar_score(calendar_metrics),
                       calculate_baseline_risk(baseline_data)), Num(0))
    /\ risk_result.score = 0

\* C2: each of the three subscores, and so each of factors.spotify_score,
\* factors.calendar_score and factors.baseline_score, is within [0, 100].
C2_SubscoresInRange ==
    Assessed =>
        /\ InRange(calculate_spotify_score(spotify_metrics))
        /\ InRange(calculate_calendar_score(calendar_metrics))
        /\ InRange(calculate_baseline_risk(baseline_data))
        /\ InRange(risk_result.factors.spotify_score)
        /\ InRange(risk_result.factors.calendar_score)
        /\ InRange(risk_result.factors.baseline_score)

\* C3: the level of every calculate_risk result is one of low, mild, moderate,
\* high.
C3_LevelIsOneOfFour ==
    Assessed => risk_result.level \in {"low", "mild", "moderate", "high"}

\* The level the four integer ranges give an integer score of 0..100.
ExpectedLevel(s) ==
    IF s <= 25 THEN "low"
    ELSE IF s <= 50 THEN "mild"
    ELSE IF s <= 75 THEN "moderate"
    ELSE "high"

\* C4: for every integer score s in 0..100, get_risk_level(s) is low for
\* 0..25, mild for 26..50, moderate for 51..75 and high for 76..100.
C4_IntegerLevels ==
    (pc = "classified" /\ classified.score[2] = 1
                       /\ classified.score[1] \in 0..100)
        => classified.level = ExpectedLevel(classified.score[1])

\* get_risk_level was called on the boundary score 26 and returned mild.
C4_Witness ==
    pc = "classified" /\ classified.score = Num(26) /\ classified.level = "mild"

\* C5: calculate_risk never raises, also for zero or negative baselines with
\* negative current values and for missing fields.
C5_NeverRaises == pc = "assessed" => ~risk_result.raised

\* C6: for every assessment with score >= 76 the message run_intervention
\* returns contains the fixed crisis resources, also when the generator fails
\* and the template is used.  (A generator that itself returns a text without
\* them is left out: the statement is about what the code adds.)
C6_CrisisMessageHasResources ==
    (/\ Intervened
     /\ intervention.risk_score >= 76
     /\ ~(env.llm.outcome = "text" /\ env.llm.resources = {}))
        => CrisisResources \subseteq intervention.message.resources

\* C7: for every assessment with score >= 76 run_intervention does not call
\* the recommender and returns no activities, whatever the level label.
C7_NoActivitiesAtCrisisScore ==
    (Intervened /\ intervention.risk_score >= 76)
        => (recommender_calls = <<>> /\ intervention.activities = <<>>)

CrisisActionItems ==
    << "Call or text someone you trust RIGHT NOW",
       "Contact TAMU Counseling Services: (979) 845-4427",
       "Call National Suicide Prevention Lifeline: 988",
       "Go to a public place (don't stay isolated)" >>

\* C8: for every assessment calculate_risk produced with score >= 76, the
\* action items run_intervention returns are the crisis set.
C8_CrisisActionItems ==
    (Intervened /\ from_calculator /\ intervention.risk_score >= 76)
        => intervention.action_items = CrisisActionItems

\* C9: run_intervention invokes the recommender if and only if the level is
\* not critical and both interests and location are present and non-empty.
C9_RecommenderGate ==
    Intervened =>
        ((recommender_calls # <<>>)
            <=> (/\ AssessmentLevel(risk_assessment) # "critical"
                 /\ InterestsTruthy(user_interests)
                 /\ LocationTruthy(user_location)))

\* A non-critical assessment with interests and location: one call was made,
\* with the caller's own interests and location.
C9_Witness ==
    /\ Intervened
    /\ AssessmentLevel(risk_assessment) = "elevated"
    /\ InterestsTruthy(user_interests)
    /\ LocationTruthy(user_location)
    /\ Len(recommender_calls) = 1
    /\ recommender_calls[1].interests = user_interests.items
    /\ recommender_calls[1].location = user_location.text

\* C10: when interests or location is absent, run_intervention returns no
\* activities, makes no recommender call, puts no invented interests or
\* location into the prompt, and still returns a message and action items.
C10_NoFabrication ==
    (Intervened /\ (~InterestsTruthy(user_interests)
                    \/ ~LocationTruthy(user_location)))
        => /\ intervention.activities = <<>>
           /\ recommender_calls = <<>>
           /\ prompt.kind = "standard" =>
                 /\ prompt.location = user_location
                 /\ (~InterestsTruthy(user_interests)
                        => prompt.interests = <<"Not specified">>)
                 /\ prompt.activities_found = 0
           /\ intervention.message.source \in {"llm", "template"}
           /\ intervention.action_items
                 = ActionItems(AssessmentLevel(risk_assessment))

\* Interests are given but no location, for a level that would otherwise get
\* recommendations: nothing was fetched and the result is complete.
C10_Witness ==
    /\ Intervened
    /\ InterestsTruthy(user_interests)
    /\ user_location.is_none
    /\ AssessmentLevel(risk_assessment) = "high"
    /\ recommender_calls = <<>>
    /\ intervention.activities = <<>>
    /\ Len(intervention.action_items) = 4

\* C11: when the recommender raises, recommend_activities returns the empty
\* list and run_intervention still returns a result with a message and the
\* action items of the level; the failure does not leave run_intervention.
C11_RecommenderFailureContained ==
    (Intervened /\ env.recommender = "raises")
        => /\ ~intervention.raised
           /\ intervention.activities = <<>>
           /\ intervention.message.source \in {"llm", "template"}
           /\ intervention.action_items
                 = ActionItems(AssessmentLevel(risk_assessment))

\* The recommender was called once for an elevated assessment and raised; the
\* result carries the generator's message and the three elevated action items.
C11_Witness ==
    /\ Intervened
    /\ env.recommender = "raises"
    /\ Len(recommender_calls) = 1
    /\ AssessmentLevel(risk_assessment) = "elevated"
    /\ ~intervention.raised
    /\ intervention.message.source = "llm"
    /\ Len(intervention.action_items) = 3
    /\ intervention.activities = <<>>

\* C12: when the message generator fails (the call raises, or its response has
\* no text), run_intervention returns the template of the assessment's level,
\* the moderate template when the level has none; the message is a non-empty
\* string and the failure does not leave run_intervention.
C12_GeneratorFailureFallsBack ==
    (Intervened /\ env.llm.outcome \in {"raises", "no_text"})
        => /\ ~intervention.raised
           /\ intervention.message.source = "template"
           /\ intervention.message.template
                 = (IF AssessmentLevel(risk_assessment)
                          \in {"low", "moderate", "elevated", "high", "critical"}
                    THEN AssessmentLevel(risk_assessment)
                    ELSE "moderate")
           /\ ~intervention.message.empty

\* The generator raised for an assessment the calculator labelled mild, a
\* level without a template: the moderate template was returned.
C12_Witness ==
    /\ Intervened
    /\ from_calculator
    /\ AssessmentLevel(risk_assessment) = "mild"
    /\ env.llm.outcome = "raises"
    /\ intervention.message.source = "template"
    /\ intervention.message.template = "moderate"
    /\ ~intervention.message.empty

\* C13: when storing the intervention fails, run_intervention still returns
\* the complete result (risk_level, risk_score, message, activities,
\* action_items) with intervention_id None; when no db session or no user id
\* is given, store_intervention is not called at all.
C13_StoreFailureContained ==
    Intervened =>
        /\ env.store = "raises" =>
              /\ ~intervention.raised
              /\ intervention.risk_level = AssessmentLevel(risk_assessment)
              /\ intervention.risk_score = AssessmentScore(risk_assessment)
              /\ intervention.message.source \in {"llm", "template"}
              /\ env.recommender # "returns" => intervention.activities = <<>>
              /\ intervention.action_items
                    = ActionItems(AssessmentLevel(risk_assessment))
              /\ intervention.intervention_id.is_none
        /\ (~db_session \/ user_id.is_none \/ user_id.text = "") =>
              /\ store_calls = <<>>
              /\ env.store = "not_called"
              /\ intervention.intervention_id.is_none

\* A session and a user id were given, the store was called with the message
\* and the first recommended event, and it raised: the result is complete and
\* carries no intervention id.
C13_Witness ==
    /\ Intervened
    /\ db_session
    /\ user_id.text = "user-1"
    /\ env.store = "raises"
    /\ Len(store_calls) = 1
    /\ store_calls[1].suggestion = intervention.message
    /\ ~store_calls[1].event.is_none
    /\ Len(intervention.activities) > 0
    /\ Len(intervention.action_items) > 0
    /\ ~intervention.raised
    /\ intervention.intervention_id.is_none

Detected == pc = "assessed" /\ detection.ran

\* The neutral defaults of the two sources.
NeutralListening ==
    [baseline_listening_hours |-> Num(90), current_listening_hours |-> Num(90),
     late_night_percentage |-> Num(0), baseline_valence |-> Dec(50),
     current_valence |-> Dec(50), repeat_listening_percentage |-> Num(0)]
NeutralCalendar ==
    [baseline_social_events |-> Num(8), current_social_events |-> Num(8),
     declined_invitation_rate |-> Num(0), declined_invitations_count |-> Num(0),
     baseline_unique_contacts |-> Num(5), current_unique_contacts |-> Num(5)]

\* C14: run_detection returns a risk assessment for every combination of
\* token presence and analyzer outcome; for each source, both without a token
\* and with a token whose analyzer call fails, the metrics used are the
\* neutral defaults (calendar 8, 8, 0, 0, 5, 5; listening 90, 90, 0, 0.5, 0.5,
\* 0), and the failure does not abort detection.
C14_NeutralDefaults ==
    Detected =>
        /\ ~risk_result.raised
        /\ risk_result.score \in 0..100
        /\ (\/ detection.spotify_token.is_none
            \/ detection.spotify_token.text = ""
            \/ detection.spotify_outcome.kind = "raises")
              => spotify_metrics = NeutralListening
        /\ (\/ detection.calendar_token.is_none
            \/ detection.calendar_token.text = ""
            \/ detection.calendar_outcome.kind = "raises")
              => calendar_metrics = NeutralCalendar

\* Both tokens were given and both fetches were entered and failed: the
\* assessment is the one of the neutral defaults.
C14_Witness ==
    /\ Detected
    /\ detection.spotify_token.text = "token"
    /\ detection.calendar_token.text = "token"
    /\ detection.spotify_outcome.kind = "raises"
    /\ detection.calendar_outcome.kind = "raises"
    /\ detection.calls = <<"spotify", "calendar">>
    /\ spotify_metrics = NeutralListening
    /\ calendar_metrics = NeutralCalendar
    /\ ~risk_result.raised
    /\ risk_result.level = "low"

Attempted(calls, source) == \E i \in 1..Len(calls) : calls[i] = source

\* C15: the two fetches of run_detection are independent: whatever the
\* listening token and the listening fetch do, the calendar fetch is entered
\* exactly when a calendar token is given and the calendar metrics are the
\* same; whatever the calendar token and the calendar fetch do, the listening
\* fetch and the listening metrics are the same.
C15_SourcesIndependent ==
    Detected =>
        /\ Attempted(detection.calls, "calendar")
              <=> (~detection.calendar_token.is_none
                   /\ detection.calendar_token.text # "")
        /\ Attempted(detection.calls, "spotify")
              <=> (~detection.spotify_token.is_none
                   /\ detection.spotify_token.text # "")
        /\ \A st \in TokenInputs, so \in SpotifyOutcomes :
              LET r == run_detection(detection.calendar_token, st,
                                     detection.baseline, so,
                                     detection.calendar_outcome)
              IN  /\ r.calendar_metrics = calendar_metrics
                  /\ Attempted(r.calls, "calendar")
                        <=> Attempted(detection.calls, "calendar")
        /\ \A ct \in TokenInputs, co \in CalendarOutcomes :
              LET r == run_detection(ct, detection.spotify_token,
                                     detection.baseline,
                                     detection.spotify_outcome, co)
              IN  /\ r.spotify_metrics = spotify_metrics
                  /\ Attempted(r.calls, "spotify")
                        <=> Attempted(detection.calls, "spotify")

\* The listening fetch returned data (late-night 46, valence 0.2), then the
\* calendar fetch was entered and failed: the listening metrics are kept.
C15_Witness ==
    /\ Detected
    /\ detection.spotify_outcome.kind = "returns"
    /\ detection.calendar_outcome.kind = "raises"
    /\ detection.calls = <<"spotify", "calendar">>
    /\ spotify_metrics.late_night_percentage = Num(46)
    /\ spotify_metrics.current_valence = Dec(20)
    /\ calendar_metrics = NeutralCalendar

\* The seven trigger conditions on the raw metrics, an absent metric standing
\* at its default.
AnyTrigger ==
    \/ RGt(Get(spotify_metrics, "current_listening_hours", Num(15)),
           RMul(Get(spotify_metrics, "baseline_listening_hours", Num(15)),
                Dec(150)))
    \/ RGt(Get(spotify_metrics, "late_night_percentage", Num(0)), Num(40))
    \/ RGt(RSub(Get(spotify_metrics, "baseline_valence", Dec(50)),
                Get(spotify_metrics, "current_valence", Dec(50))), Dec(20))
    \/ RGt(Get(spotify_metrics, "repeat_listening_percentage", Num(0)), Num(30))
    \/ RLt(Get(calendar_metrics, "current_social_events", Num(8)),
           Get(calendar_metrics, "baseline_social_events", Num(8)))
    \/ RGt(Get(calendar_metrics, "declined_invitations_count", Num(0)), Num(0))
    \/ RLt(Get(calendar_metrics, "current_unique_contacts", Num(5)),
           RMul(Get(calendar_metrics, "baseline_unique_contacts", Num(5)),
                Dec(70)))

HasNeutral(explanation) ==
    \E i \in 1..Len(explanation) : explanation[i] = "neutral"

\* C16: the explanation of every calculate_risk result is non-empty; it
\* contains the neutral statement if and only if none of the seven trigger
\* conditions holds, and then the neutral statement is its only element.
C16_ExplanationNeverEmpty ==
    Assessed =>
        /\ risk_result.explanation # <<>>
        /\ HasNeutral(risk_result.explanation) <=> ~AnyTrigger
        /\ ~AnyTrigger => risk_result.explanation = <<"neutral">>

\* Only the declined-invitation count triggers: a single statement, not the
\* neutral one.
C16_TriggerWitness ==
    /\ Assessed
    /\ calendar_metrics.declined_invitations_count = Num(1)
    /\ risk_result.explanation = <<"declined_invitations">>
    /\ spotify_metrics = EmptySpotify

\* No trigger holds for the neutral detection defaults: the explanation is
\* the neutral statement alone.
C16_NeutralWitness ==
    /\ Assessed
    /\ ~AnyTrigger
    /\ spotify_metrics = NeutralListening
    /\ risk_result.explanation = <<"neutral">>

\* C17: with empty or neutral-default metrics for both sources and no
\* baseline, calculate_risk returns a score greater than 0 and at most 10,
\* namely the baseline-only contribution 1, and level low.
C17_BaselineOnlyScore ==
    (/\ Assessed
     /\ spotify_metrics \in {EmptySpotify, NeutralListening}
     /\ calendar_metrics \in {EmptyCalendar, NeutralCalendar}
     /\ baseline_data.is_none)
        => /\ risk_result.score > 0
           /\ risk_result.score <= 10
           /\ risk_result.score = 1
           /\ risk_result.level = "low"

\* calculate_risk({}, {}) as test_api_failure_both_down calls it.
C17_Witness ==
    /\ Assessed
    /\ ~detection.ran
    /\ spotify_metrics = EmptySpotify
    /\ calendar_metrics = EmptyCalendar
    /\ baseline_data.is_none
    /\ risk_result.score = 1
    /\ risk_result.factors.total_score = Num(1)
    /\ risk_result.level = "low"

\* Every listening and calendar factor is saturated.
Saturated ==
    LET baseline_hours == Get(spotify_metrics, "baseline_listening_hours", Num(15))
        current_hours  == Get(spotify_metrics, "current_listening_hours", Num(15))
        late_night     == Get(spotify_metrics, "late_night_percentage", Num(0))
        valence_decline ==
            RSub(Get(spotify_metrics, "baseline_valence", Dec(50)),
                 Get(spotify_metrics, "current_valence", Dec(50)))
        repeat_pct     == Get(spotify_metrics, "repeat_listening_percentage", Num(0))
        baseline_events == Get(calendar_metrics, "baseline_social_events", Num(8))
        current_events  == Get(calendar_metrics, "current_social_events", Num(8))
        declined_rate   == Get(calendar_metrics, "declined_invitation_rate", Num(0))
        baseline_contacts == Get(calendar_metrics, "baseline_unique_contacts", Num(5))
        current_contacts  == Get(calendar_metrics, "current_unique_contacts", Num(5))
    IN  /\ RGt(baseline_hours, Num(0))
        /\ RGt(current_hours, RMul(Num(2), baseline_hours))
        /\ RGe(late_night, Num(50))
        /\ RGe(valence_decline, Dec(30))
        /\ RGe(repeat_pct, Num(40))
        /\ RGt(baseline_events, Num(0))
        /\ RGe(RSub(baseline_events, current_events),
               RMul(Dec(75), baseline_events))
        /\ RGe(declined_rate, Num(50))
        /\ RGt(baseline_contacts, Num(0))
        /\ RGe(RSub(baseline_contacts, current_contacts),
               RMul(Dec(50), baseline_contacts))

\* C18: when every listening and calendar factor is saturated, calculate_risk
\* returns score >= 76 and level high, for every baseline prior.
C18_SaturatedIsHigh ==
    (pc = "assessed" /\ Saturated)
        => /\ ~risk_result.raised
           /\ risk_result.score >= 76
           /\ risk_result.level = "high"

\* The scenario of test_high_risk_score (8 to 0 events, rate 100, contacts to
\* 0, 15h to 45h, late-night 85, valence 0.70 to 0.25, repeat 65), no baseline.
C18_Witness ==
    /\ Assessed
    /\ Saturated
    /\ spotify_metrics = SaturatedSpotify
    /\ calendar_metrics.current_social_events = Num(0)
    /\ calendar_metrics.declined_invitation_rate = Num(100)
    /\ calendar_metrics.current_unique_contacts = Num(0)
    /\ baseline_data.is_none
    /\ risk_result.score = 91
    /\ risk_result.level = "high"

\* Every factor exactly at its saturation value, with the largest prior.
C18_ThresholdWitness ==
    /\ Assessed
    /\ Saturated
    /\ spotify_metrics = ThresholdSpotify
    /\ calendar_metrics = ThresholdCalendar
    /\ baseline_data.historical_risk = Num(150)
    /\ risk_result.score = 100

\* The call just made has the inputs of the remembered earlier call.
SameInputsAsBefore ==
    /\ pc = "assessed"
    /\ previous.valid
    /\ passed.spotify_metrics = previous.spotify_metrics
    /\ passed.calendar_metrics = previous.calendar_metrics
    /\ passed.baseline_data = previous.baseline_data

ClampedComposite ==
    LET composite ==
            RAdd(RAdd(RMul(calculate_spotify_score(passed.spotify_metrics),
                           Rat(2, 5)),
                      RMul(calculate_calendar_score(passed.calendar_metrics),
                           Rat(1, 2))),
                 RMul(calculate_baseline_risk(passed.baseline_data), Rat(1, 10)))
    IN  IF RLt(composite, Num(0)) THEN Num(0)
        ELSE IF RGt(composite, Num(100)) THEN Num(100) ELSE composite

\* |a - b| <= bound
Within(a, b, bound) == RLe(RSub(a, b), bound) /\ RLe(RSub(b, a), bound)

\* C20 as stated: the reported integer score is within 0.5 of the clamped
\* composite, and factors.total_score is that clamped composite.
C20_TotalScoreIsComposite ==
    Assessed =>
        /\ Within(Num(risk_result.score), ClampedComposite, Rat(1, 2))
        /\ risk_result.factors.total_score = ClampedComposite

\* C20 (amended): the reported integer score is within 0.5 of the clamped
\* composite, and factors.total_score is the clamped composite rounded to two
\* decimal places.
C20_ScoreIsRoundedComposite ==
    Assessed =>
        /\ Within(Num(risk_result.score), ClampedComposite, Rat(1, 2))
        /\ Within(risk_result.factors.total_score, ClampedComposite, Rat(1, 200))
        /\ 100 % risk_result.factors.total_score[2] = 0

\* A composite with more than two decimals: events 8 to 4 and a declined rate
\* of 25 give 25.1675, reported as score 25 with total_score 25.17.
C20_Witness ==
    /\ Assessed
    /\ ClampedComposite = Rat(251675, 10000)
    /\ risk_result.score = 25
    /\ risk_result.factors.total_score = Dec(2517)

\* The listening metrics with a negative late_night_percentage or
\* repeat_listening_percentage replaced by the value 0.
NegativesAsZero(sm) ==
    [k \in SpotifyKeys |->
        IF /\ k \in {"late_night_percentage", "repeat_listening_percentage"}
           /\ sm[k] # Missing
           /\ RLt(sm[k], Num(0))
        THEN Num(0) ELSE sm[k]]

\* C21: in calculate_spotify_score every partial term is floored at 0: a
\* negative late_night_percentage or repeat_listening_percentage gives the
\* same listening subscore as the value 0 in that field, never a lower one.
C21_NegativeTermsFloored ==
    pc = "assessed" =>
        calculate_spotify_score(passed.spotify_metrics)
            = calculate_spotify_score(NegativesAsZero(passed.spotify_metrics))

\* The calendar metrics with current_social_events (current_unique_contacts)
\* set to the baseline value where current > baseline > 0.
CurrentCappedAtBaseline(cm) ==
    LET baseline_events   == Get(cm, "baseline_social_events", Num(8))
        current_events    == Get(cm, "current_social_events", Num(8))
        baseline_contacts == Get(cm, "baseline_unique_contacts", Num(5))
        current_contacts  == Get(cm, "current_unique_contacts", Num(5))
    IN  [cm EXCEPT
           !["current_social_events"] =
               IF RGt(current_events, baseline_events) /\ RGt(baseline_events, Num(0))
               THEN baseline_events ELSE @,
           !["current_unique_contacts"] =
               IF RGt(current_contacts, baseline_contacts)
                  /\ RGt(baseline_contacts, Num(0))
               THEN baseline_contacts ELSE @]

\* C22: in calculate_calendar_score the event-decline and contact-decline
\* contributions are floored at 0: with more events (contacts) than the
\* positive baseline, the calendar subscore equals the subscore obtained with
\* current equal to baseline, so the other calendar factors are not offset.
C22_DeclinesFloored ==
    pc = "assessed" =>
        calculate_calendar_score(passed.calendar_metrics)
            = calculate_calendar_score(CurrentCappedAtBaseline(passed.calendar_metrics))

\* C23: calculate_baseline_risk returns 10 when no baseline is given or the
\* baseline has no historical_risk, and otherwise historical_risk clamped to
\* [0, 100]: 0 below 0, 100 above 100, the value itself in between.
C23_BaselineRisk ==
    pc = "assessed" =>
        LET bd == passed.baseline_data
            hr == bd.historical_risk
            baseline_score == calculate_baseline_risk(bd)
        IN  /\ (bd.is_none \/ hr = Missing) => baseline_score = Num(10)
            /\ (~bd.is_none /\ hr # Missing) =>
                  /\ RLt(hr, Num(0)) => baseline_score = Num(0)
                  /\ RGt(hr, Num(100)) => baseline_score = Num(100)
                  /\ (RLe(Num(0), hr) /\ RLe(hr, Num(100))) => baseline_score = hr
            /\ ~risk_result.raised
                  => risk_result.factors.baseline_score = Round2(baseline_score)

\* A baseline with historical_risk 150 was assessed: the baseline subscore
\* reported in factors is 100.
C23_Witness ==
    /\ Assessed
    /\ ~baseline_data.is_none
    /\ baseline_data.historical_risk = Num(150)
    /\ calculate_baseline_risk(baseline_data) = Num(100)
    /\ risk_result.factors.baseline_score = Num(100)

\* A baseline with historical_risk -5 gives the subscore 0, a baseline dict
\* without historical_risk gives 10.
C23_FloorWitness ==
    /\ Assessed
    /\ baseline_data.historical_risk = Num(-5)
    /\ risk_result.factors.baseline_score = Num(0)
C23_DefaultWitness ==
    /\ Assessed
    /\ ~baseline_data.is_none
    /\ baseline_data.other_keys
    /\ baseline_data.historical_risk = Missing
    /\ risk_result.factors.baseline_score = Num(10)

\* The seven factor statements in the order of the claim.
FactorStatements ==
    << "listening_spike", "late_night", "mood_shift", "repeat_listening",
       "social_decline", "declined_invitations", "contact_reduction" >>

\* The trigger of the k-th statement on the raw metrics that were passed, an
\* absent metric standing at its default.
Trigger(k) ==
    LET sm == passed.spotify_metrics
        cm == passed.calendar_metrics
    IN  CASE k = 1 -> RGt(Get(sm, "current_listening_hours", Num(15)),
                          RMul(Rat(3, 2), Get(sm, "baseline_listening_hours", Num(15))))
          [] k = 2 -> RGt(Get(sm, "late_night_percentage", Num(0)), Num(40))
          [] k = 3 -> RGt(RSub(Get(sm, "baseline_valence", Rat(1, 2)),
                               Get(sm, "current_valence", Rat(1, 2))), Rat(1, 5))
          [] k = 4 -> RGt(Get(sm, "repeat_listening_percentage", Num(0)), Num(30))
          [] k = 5 -> RLt(Get(cm, "current_social_events", Num(8)),
                          Get(cm, "baseline_social_events", Num(8)))
          [] k = 6 -> RGt(Get(cm, "declined_invitations_count", Num(0)), Num(0))
          [] k = 7 -> RLt(Get(cm, "current_unique_contacts", Num(5)),
                          RMul(Rat(7, 10), Get(cm, "baseline_unique_contacts", Num(5))))

\* The position of a factor statement in the fixed order (0 for any other).
OrderOf(s) ==
    IF \E k \in 1..7 : FactorStatements[k] = s
    THEN CHOOSE k \in 1..7 : FactorStatements[k] = s
    ELSE 0

\* C24: the explanation lists the factor statements in the fixed order
\* listening-spike, late-night, mood-shift, repeat-listening, social-decline,
\* declined-invitations, contact-reduction; each appears at most once, and
\* appears if and only if its trigger holds on the raw metrics; the list has
\* at most seven entries.
C24_FixedOrderTriggers ==
    Assessed =>
        LET e == risk_result.explanation
        IN  /\ \A k \in 1..7 :
                  (\E i \in 1..Len(e) : e[i] = FactorStatements[k]) <=> Trigger(k)
            /\ \A i, j \in 1..Len(e) : i < j => e[i] # e[j]
            /\ \A i, j \in 1..Len(e) :
                  (i < j /\ OrderOf(e[i]) > 0 /\ OrderOf(e[j]) > 0)
                      => OrderOf(e[i]) < OrderOf(e[j])
            /\ Len(e) <= 7

\* Every trigger holds (the saturated listening metrics, events 8 to 0, three
\* declined invitations, contacts 5 to 0): all seven statements, in order.
C24_Witness ==
    /\ Assessed
    /\ \A k \in 1..7 : Trigger(k)
    /\ risk_result.explanation = FactorStatements

\* Only the late-night and the contact-reduction triggers hold: the two
\* statements, the listening one first.
C24_TwoWitness ==
    /\ Assessed
    /\ Trigger(2) /\ Trigger(7)
    /\ \A k \in {1, 3, 4, 5, 6} : ~Trigger(k)
    /\ risk_result.explanation = <<"late_night", "contact_reduction">>

\* C25: when get_risk_level receives a score below 0 or above 100 it fails
\* with an error; it never returns a value for an out-of-domain score.
C25_OutOfDomainFailsLoudly ==
    (pc = "classified" /\ ~InRange(classified.score)) => classified.raised

MaintainItems ==
    << "Continue maintaining your current social connections",
       "Consider trying one new social activity this week" >>
ReachOutItems ==
    << "Reach out to a friend you haven't talked to in a while",
       "Join one small group activity (see recommendations below)",
       "Spend 10 minutes outside in a social space (coffee shop, park)" >>
DirectConcernItems ==
    << "Text or call one person you trust today",
       "Schedule a low-pressure social activity within 3 days",
       "Consider talking to a counselor or therapist",
       "Join a structured group activity (less awkward than 'just hanging out')" >>

\* C26: across a sequence of run_intervention calls, the action items of each
\* call are a function of that call's level alone, whatever the level of the
\* call before: low and moderate give the two maintain-connections items,
\* elevated the three reach-out items, high the four direct-concern items,
\* critical the four crisis items; a call with the level of the call before
\* returns the same items.
C26_ActionItemsByLevelAlone ==
    Intervened =>
        LET level == AssessmentLevel(risk_assessment)
            items == intervention.action_items
        IN  /\ ~intervention.raised
            /\ level \in {"low", "moderate"} => items = MaintainItems
            /\ level = "elevated" => items = ReachOutItems
            /\ level = "high" => items = DirectConcernItems
            /\ level = "critical" => items = CrisisActionItems
            /\ (earlier.valid /\ earlier.level = level)
                  => items = earlier.action_items

\* The call before was critical and returned the crisis items; this call is
\* low and returns the two maintain-connections items.
C26_Witness ==
    /\ Intervened
    /\ earlier.valid
    /\ earlier.level = "critical"
    /\ earlier.action_items = CrisisActionItems
    /\ AssessmentLevel(risk_assessment) = "low"
    /\ intervention.action_items = MaintainItems

\* The call before was low, this one is high: the four direct-concern items.
C26_EscalationWitness ==
    /\ Intervened
    /\ earlier.valid
    /\ earlier.level = "low"
    /\ AssessmentLevel(risk_assessment) = "high"
    /\ intervention.action_items = DirectConcernItems

\* C27: run_intervention builds the crisis prompt if and only if the
\* assessment's numeric score is >= 76 and the standard intervention prompt
\* otherwise, whatever the level label.
C27_CrisisPromptByScore ==
    Intervened =>
        /\ prompt.kind \in {"crisis", "standard"}
        /\ prompt.kind = "crisis" <=> AssessmentScore(risk_assessment) >= 76
        /\ prompt.kind = "standard" <=> AssessmentScore(risk_assessment) < 76

\* Score 76 with the label low: the crisis prompt was built.
C27_Witness ==
    /\ Intervened
    /\ risk_assessment.has_score /\ risk_assessment.score = 76
    /\ risk_assessment.has_level /\ risk_assessment.level = "low"
    /\ prompt.kind = "crisis"

\* Score 75 with the label critical: the standard prompt was built.
C27_StandardWitness ==
    /\ Intervened
    /\ risk_assessment.has_score /\ risk_assessment.score = 75
    /\ risk_assessment.has_level /\ risk_assessment.level = "critical"
    /\ prompt.kind = "standard"

\* What run_intervention returns and calls for the assessment of this call
\* relabelled moderate, in the same context and with the same collaborators.
AsModerate ==
    run_intervention([risk_assessment EXCEPT !.has_level = TRUE,
                                             !.level = "moderate"],
                     user_id, user_interests, user_location, db_session,
                     IF env.recommender = "raises" THEN "raises" ELSE "returns",
                     intervention.activities, env.llm,
                     IF env.store = "raises" THEN "raises" ELSE "stored")

\* C28: an assessment with the level mild is handled exactly as one with the
\* level moderate: for the same score and context run_intervention returns
\* the same fallback template and the same action items, and requests
\* activities at the same anxiety level.
C28_MildAsModerate ==
    (Intervened /\ AssessmentLevel(risk_assessment) = "mild") =>
        /\ intervention.message = AsModerate.result.message
        /\ intervention.action_items = AsModerate.result.action_items
        /\ Len(recommender_calls) = Len(AsModerate.calls)
        /\ \A i \in 1..Len(recommender_calls) :
              recommender_calls[i].anxiety_level = AsModerate.calls[i].anxiety_level

\* C29: in every calculate_risk result the level agrees with the reported
\* integer score: level = get_risk_level(score), so 0..25 comes with low,
\* 26..50 with mild, 51..75 with moderate and 76..100 with high.
C29_LevelAgreesWithScore ==
    Assessed =>
        /\ risk_result.level = get_risk_level(Num(risk_result.score))
        /\ risk_result.score \in 0..100
              => risk_result.level = ExpectedLevel(risk_result.score)

\* A Google access token is stored in the row.
TokenStored(row) ==
    /\ row.exists
    /\ ~row.google_access_token.is_none
    /\ row.google_access_token.value # <<>>

\* C30: over any sequence of connect_calendar and google_calendar_callback
\* requests on a user's permission row, calendar_enabled is true only while a
\* Google access token is stored; enabling without a stored token leaves
\* calendar_enabled (and the row) unchanged and answers needs_oauth; a
\* successful callback stores the token and enables; disabling clears the
\* access and the refresh token and sets calendar_enabled to false.
C30_EnabledOnlyWithToken ==
    /\ permission.calendar_enabled = "true" => TokenStored(permission)
    /\ (/\ response.op = "connect_calendar"
        /\ response.enabled
        /\ ~TokenStored(response.before))
          => /\ response.needs_oauth
             /\ response.result = "needs_oauth"
             /\ permission.calendar_enabled = response.before.calendar_enabled
             /\ permission = response.before
    /\ (response.op = "google_calendar_callback" /\ response.result = "connected")
          => /\ TokenStored(permission)
             /\ permission.google_access_token.value
                   = <<"fernet", response.callback.access_token>>
             /\ permission.calendar_enabled = "true"
    /\ (response.op = "connect_calendar" /\ ~response.enabled)
          => /\ permission.exists
             /\ permission.google_access_token.is_none
             /\ permission.google_refresh_token.is_none
             /\ permission.calendar_enabled = "false"

\* The calendar was connected with an access and a refresh token, and is then
\* disabled: the token is handed to the revoke call and both are cleared.
C30_Witness ==
    /\ response.op = "connect_calendar"
    /\ ~response.enabled
    /\ response.before.calendar_enabled = "true"
    /\ TokenStored(response.before)
    /\ ~response.before.google_refresh_token.is_none
    /\ response.revoked = <<"ya29.b">>
    /\ permission.calendar_enabled = "false"
    /\ ~TokenStored(permission)

\* Enabling is asked for a user without a row: needs_oauth, nothing stored.
C30_NeedsOAuthWitness ==
    /\ response.op = "connect_calendar"
    /\ response.enabled
    /\ ~response.before.exists
    /\ response.needs_oauth
    /\ permission = NoRow

\* A callback that goes through on a disabled row stores the token and enables.
C30_CallbackWitness ==
    /\ response.op = "google_calendar_callback"
    /\ response.result = "connected"
    /\ response.before.exists
    /\ response.before.calendar_enabled = "false"
    /\ permission.calendar_enabled = "true"
    /\ get_google_token(permission) = "ya29.a"
====
